---- MODULE Spec2Model ----
(***************************************************************************)
(* Session registry of the terminal bot (session_manager.py): the          *)
(* in-memory maps, the session directories on disk and the tmux handles.   *)
(* One action per public operation; a process restart is a fresh           *)
(* SessionManager.__init__ over the same disk and the same tmux server.    *)
(***************************************************************************)
EXTENDS Integers, Sequences, FiniteSets, TLC

\* ---------------------------------------------------------------- bounds
\* The id space of generate_session_id is range(1, 1000); the model scans
\* 1..MaxId with the same loop, so that exhaustion is reachable.
MaxId == 2
\* The clock behind datetime.now() advances by one tick with every
\* operation; no operation starts once it has reached MaxOps.
MaxOps == 4

\* ------------------------------------------------------------ input sets
Names == {"demo"}
Topics == {"t1", "t2"}
NoTopic == "<None>"
\* Text is a sequence of characters. "/tmp" exists, "/x" does not.
ExistingPaths == {<<"/", "t", "m", "p">>}
Paths == ExistingPaths \cup {<<"/", "x">>}
Files == {"notes.txt"}
tmux_prefix == "claude-session-"
NoId == <<>>

VARIABLES
    sessions,               \* self.sessions: id -> session_data
    topic_sessions,         \* self.topic_sessions: topic -> id
    global_active_session,  \* self.global_active_session: id or NoId (None)
    disk,                   \* base_dir: directory name -> [session_json, context]
    tmux,                   \* tmux server: handle name -> [cwd, keys]
    now,                    \* the clock read by datetime.now()
    ret,                    \* the last operation: its arguments and what it returned
    prev,                   \* the operation before it
    security_config,        \* TerminalBridge.security_config
    processed_messages,     \* ClaudeBot.processed_messages
    inp,                    \* the input handed to the last call
    out                     \* what that call returned or replied

vars == <<sessions, topic_sessions, global_active_session, disk, tmux, now, ret, prev,
          security_config, processed_messages, inp, out>>

\* What the session registry does not touch.
aux == <<security_config, processed_messages, inp, out>>

None == [none |-> TRUE]

\* ------------------------------------------------------------- id format
\* f"{i:03d}": the three decimal digits of i, most significant first.
Pad3(i) == <<(i \div 100) % 10, (i \div 10) % 10, i % 10>>

Ids == {Pad3(i) : i \in 1..MaxId}

\* f"{self.config['tmux_prefix']}{session_id}"
tmux_name(id) == <<tmux_prefix, id>>

\* self.base_dir / session_id, as the string stored in working_dir
session_dir(id) == <<"base_dir", id>>

\* ------------------------------------------------------------------ JSON
\* json.dump / json.load of a session dict. None becomes null, a string a
\* JSON string, a bool a JSON bool, a list an array, a dict an object.
JNull == [t |-> "null"]
JStr(s) == [t |-> "string", v |-> s]
JBool(b) == [t |-> "bool", v |-> b]
JArr(s) == [t |-> "array", v |-> [i \in DOMAIN s |-> JStr(s[i])]]
JObj(d) == [t |-> "object", v |-> d]

\* Variant: the topic written with str(), so that None becomes "None".
JsonValue_StrTopic(k, v) ==
    CASE k = "topic" -> IF v = NoTopic THEN JStr("None") ELSE JStr(v)
      [] k = "claude_code_active" -> JBool(v)
      [] k = "context_files" -> JArr(v)
      [] k = "environment" -> JObj(v)
      [] OTHER -> JStr(v)

JsonValue(k, v) ==
    CASE k = "topic" -> IF v = NoTopic THEN JNull ELSE JStr(v)
      [] k = "claude_code_active" -> JBool(v)
      [] k = "context_files" -> JArr(v)
      [] k = "environment" -> JObj(v)
      [] OTHER -> JStr(v)

PyValue(k, j) ==
    CASE j.t = "null" -> NoTopic
      [] j.t = "array" -> [i \in DOMAIN j.v |-> j.v[i].v]
      [] OTHER -> j.v

json_dump(data) == [k \in DOMAIN data |-> JsonValue(k, data[k])]

json_load(text) == [k \in DOMAIN text |-> PyValue(k, text[k])]

\* --------------------------------------------------------------- helpers
\* dict.get(key) with None written as NoId
TopicGet(ts, topic) == IF topic \in DOMAIN ts THEN ts[topic] ELSE NoId

\* d[k] = v on a dict
Put(d, k, v) == [x \in DOMAIN d \cup {k} |-> IF x = k THEN v ELSE d[x]]

\* del d[k]
Del(d, k) == [x \in DOMAIN d \ {k} |-> d[x]]

Truthy(topic) == topic # NoTopic /\ topic # ""

Op(op, id, topic, ok, err) == [op |-> op, id |-> id, topic |-> topic, ok |-> ok, err |-> err]

NoOp == Op("init", NoId, NoTopic, TRUE, "")

\* ------------------------------------------------- generate_session_id
FreeNumbers(ss) == {i \in 1..MaxId : Pad3(i) \notin DOMAIN ss}

\* Variant: the next number after the count of registered sessions.
generate_session_id_Count(ss) == Pad3(Cardinality(DOMAIN ss) + 1)

\* Variant: the largest free number instead of the first one.
generate_session_id_Largest(ss) ==
    LET free == FreeNumbers(ss)
    IN  Pad3(CHOOSE i \in free : \A j \in free : i >= j)

generate_session_id(ss) ==
    LET free == FreeNumbers(ss)
    IN  Pad3(CHOOSE i \in free : \A j \in free : i <= j)

\* ------------------------------------------------------- create_session
new_session_data(id, name, topic, t) ==
    [id |-> id,
     name |-> name,
     working_dir |-> session_dir(id),
     tmux_session |-> tmux_name(id),
     claude_code_active |-> FALSE,
     created_at |-> t,
     last_active |-> t,
     context_files |-> <<>>,
     environment |-> <<>>,
     topic |-> topic]

\* session_dir.mkdir(exist_ok=True); (session_dir / "context").mkdir(exist_ok=True);
\* open(session_dir / "session.json", 'w'): an existing directory keeps its
\* context files and whatever else it holds, the record file is overwritten.
WriteNewDir(d, id, data) ==
    IF id \in DOMAIN d
    THEN Put(d, id, [d[id] EXCEPT !.session_json = json_dump(data)])
    ELSE Put(d, id, [session_json |-> json_dump(data), context |-> {}])

\* session_dir.rmdir() in the except branch: the directory holds session.json
\* and context/, so rmdir raises OSError and the directory stays.
RollbackDir(d, id) == d

new_handle(working_dir) == [cwd |-> working_dir, keys |-> <<>>]

create_session(name, topic, tmux_ok) ==
    IF FreeNumbers(sessions) = {}
    THEN /\ ret' = Op("create", NoId, topic, FALSE, "Too many sessions")
         /\ UNCHANGED <<sessions, topic_sessions, global_active_session, disk, tmux>>
    ELSE LET id == generate_session_id(sessions)
             data == new_session_data(id, name, topic, now)
             written == WriteNewDir(disk, id, data)
             killed == Del(tmux, tmux_name(id))
         IN  IF tmux_ok
             THEN /\ disk' = written
                  /\ tmux' = Put(killed, tmux_name(id), new_handle(data.working_dir))
                  /\ sessions' = Put(sessions, id, data)
                  /\ topic_sessions' = IF Truthy(topic)
                                       THEN Put(topic_sessions, topic, id)
                                       ELSE topic_sessions
                  /\ ret' = Op("create", id, topic, TRUE, "")
                  /\ UNCHANGED global_active_session
             ELSE /\ disk' = RollbackDir(written, id)
                  /\ tmux' = killed
                  /\ ret' = Op("create", id, topic, FALSE,
                               IF id \in DOMAIN RollbackDir(written, id)
                               THEN "OSError: Directory not empty"
                               ELSE "Failed to create tmux session")
                  /\ UNCHANGED <<sessions, topic_sessions, global_active_session>>

CreateSession ==
    /\ now < MaxOps
    /\ \E name \in Names, topic \in Topics \cup {NoTopic}, tmux_ok \in BOOLEAN :
           create_session(name, topic, tmux_ok)
    /\ now' = now + 1
    /\ prev' = ret

\* --------------------------------------------------------- save_session
save_session(ss, d, id) ==
    IF id \notin DOMAIN ss
    THEN d
    ELSE Put(d, id, [d[id] EXCEPT !.session_json = json_dump(ss[id])])

\* ------------------------------------------------------- switch_session
\* Variant: an existing topic mapping is kept (setdefault).
switch_session_FirstWins(id, topic) ==
    IF id \notin DOMAIN sessions
    THEN /\ ret' = Op("switch", id, topic, FALSE, "")
         /\ UNCHANGED <<sessions, topic_sessions, global_active_session, disk, tmux>>
    ELSE LET ss == [sessions EXCEPT ![id].last_active = now]
         IN  /\ topic_sessions' = IF topic \in DOMAIN topic_sessions
                                  THEN topic_sessions
                                  ELSE Put(topic_sessions, topic, id)
             /\ global_active_session' = id
             /\ sessions' = ss
             /\ disk' = save_session(ss, disk, id)
             /\ ret' = Op("switch", id, topic, TRUE, "")
             /\ UNCHANGED tmux

switch_session(id, topic) ==
    IF id \notin DOMAIN sessions
    THEN /\ ret' = Op("switch", id, topic, FALSE, "")
         /\ UNCHANGED <<sessions, topic_sessions, global_active_session, disk, tmux>>
    ELSE LET ss == [sessions EXCEPT ![id].last_active = now]
         IN  /\ topic_sessions' = Put(topic_sessions, topic, id)
             /\ global_active_session' = id
             /\ sessions' = ss
             /\ disk' = save_session(ss, disk, id)
             /\ ret' = Op("switch", id, topic, TRUE, "")
             /\ UNCHANGED tmux

SwitchSession ==
    /\ now < MaxOps
    /\ \E id \in Ids, topic \in Topics : switch_session(id, topic)
    /\ now' = now + 1
    /\ prev' = ret

\* -------------------------------------------------- get_current_session
\* Variant: the global active session is looked at before the topic mapping.
get_current_session_GlobalFirst(ss, ts, global, topic) ==
    LET session_id == TopicGet(ts, topic)
    IN  IF global # NoId /\ global \in DOMAIN ss
        THEN global
        ELSE IF session_id # NoId /\ session_id \in DOMAIN ss
             THEN session_id
             ELSE NoId

\* The id of the session returned, NoId for None.
get_current_session(ss, ts, global, topic) ==
    LET session_id == TopicGet(ts, topic)
    IN  IF session_id # NoId /\ session_id \in DOMAIN ss
        THEN session_id
        ELSE IF global # NoId /\ global \in DOMAIN ss
             THEN global
             ELSE NoId

GetCurrentSession ==
    /\ now < MaxOps
    /\ \E topic \in Topics :
           LET r == get_current_session(sessions, topic_sessions,
                                        global_active_session, topic)
           IN  ret' = Op("get", r, topic, r # NoId, "")
    /\ now' = now + 1
    /\ prev' = ret
    /\ UNCHANGED <<sessions, topic_sessions, global_active_session, disk, tmux>>

\* -------------------------------------------------------- sleep_session
sleep_session(id) ==
    IF id \notin DOMAIN sessions
    THEN /\ ret' = Op("sleep", id, NoTopic, FALSE, "")
         /\ UNCHANGED <<sessions, topic_sessions, global_active_session, disk, tmux>>
    ELSE LET ss == Put(sessions, id, Put(sessions[id], "status", "sleeping"))
         IN  /\ sessions' = ss
             /\ disk' = save_session(ss, disk, id)
             /\ ret' = Op("sleep", id, NoTopic, TRUE, "")
             /\ UNCHANGED <<topic_sessions, global_active_session, tmux>>

SleepSession ==
    /\ now < MaxOps
    /\ \E id \in Ids : sleep_session(id)
    /\ now' = now + 1
    /\ prev' = ret

\* --------------------------------------------------------- kill_session
\* Variant: the mapping of the session's topic is removed whatever it maps
\* to.
KillTopics_Always(ts, session, id) ==
    IF Truthy(session.topic) THEN Del(ts, session.topic) ELSE ts

\* The topic mapping removed when a session is killed: the one of the
\* session's own "topic" field, and only while it still maps to the session.
KillTopics(ts, session, id) ==
    IF Truthy(session.topic) /\ TopicGet(ts, session.topic) = id
    THEN Del(ts, session.topic)
    ELSE ts

\* kill_session leaves the session directory and its session.json in place.
KillDisk(d, id) == d

\* Variant: the tmux handle is killed but the entry stays in self.sessions.
kill_session_KeepsEntry(id) ==
    IF id \notin DOMAIN sessions
    THEN /\ ret' = Op("kill", id, NoTopic, FALSE, "")
         /\ UNCHANGED <<sessions, topic_sessions, global_active_session, disk, tmux>>
    ELSE /\ tmux' = Del(tmux, sessions[id].tmux_session)
         /\ topic_sessions' = KillTopics(topic_sessions, sessions[id], id)
         /\ ret' = Op("kill", id, NoTopic, TRUE, "")
         /\ UNCHANGED <<sessions, global_active_session, disk>>

kill_session(id) ==
    IF id \notin DOMAIN sessions
    THEN /\ ret' = Op("kill", id, NoTopic, FALSE, "")
         /\ UNCHANGED <<sessions, topic_sessions, global_active_session, disk, tmux>>
    ELSE LET session == sessions[id]
         IN  /\ tmux' = Del(tmux, session.tmux_session)
             /\ sessions' = Del(sessions, id)
             /\ topic_sessions' = KillTopics(topic_sessions, session, id)
             /\ disk' = KillDisk(disk, id)
             /\ ret' = Op("kill", id, NoTopic, TRUE, "")
             /\ UNCHANGED global_active_session

KillSession ==
    /\ now < MaxOps
    /\ \E id \in Ids : kill_session(id)
    /\ now' = now + 1
    /\ prev' = ret

\* ------------------------------------------------ set_working_directory
\* tmux send-keys -t name keys... : the keys reach a live handle; on a dead
\* one the command fails and the CalledProcessError is swallowed.
send_keys(tm, name, keys) ==
    IF name \in DOMAIN tm
    THEN [tm EXCEPT ![name].keys = Append(@, keys)]
    ELSE tm

\* The call set_working_directory(id, working_dir) and its result.
SetwdOp(id, working_dir, ok) ==
    [path |-> working_dir] @@ Op("setwd", id, NoTopic, ok, "")

\* f"cd {working_dir}"
CdCommand(working_dir) == <<"c", "d", " ">> \o working_dir

\* Variant: working_dir is stored before the path is checked.
set_working_directory_StoreFirst(id, working_dir) ==
    IF id \notin DOMAIN sessions
    THEN /\ ret' = SetwdOp(id, working_dir, FALSE)
         /\ UNCHANGED <<sessions, topic_sessions, global_active_session, disk, tmux>>
    ELSE LET ss == [sessions EXCEPT ![id].working_dir = working_dir]
         IN  /\ sessions' = ss
             /\ ret' = SetwdOp(id, working_dir, working_dir \in ExistingPaths)
             /\ IF working_dir \in ExistingPaths
                THEN /\ tmux' = send_keys(tmux, ss[id].tmux_session,
                                          <<CdCommand(working_dir), "Enter">>)
                     /\ disk' = save_session(ss, disk, id)
                ELSE UNCHANGED <<disk, tmux>>
             /\ UNCHANGED <<topic_sessions, global_active_session>>

set_working_directory(id, working_dir) ==
    IF id \notin DOMAIN sessions \/ working_dir \notin ExistingPaths
    THEN /\ ret' = SetwdOp(id, working_dir, FALSE)
         /\ UNCHANGED <<sessions, topic_sessions, global_active_session, disk, tmux>>
    ELSE LET ss == [sessions EXCEPT ![id].working_dir = working_dir]
         IN  /\ sessions' = ss
             /\ tmux' = send_keys(tmux, ss[id].tmux_session,
                                  <<CdCommand(working_dir), "Enter">>)
             /\ disk' = save_session(ss, disk, id)
             /\ ret' = SetwdOp(id, working_dir, TRUE)
             /\ UNCHANGED <<topic_sessions, global_active_session>>

SetWorkingDirectory ==
    /\ now < MaxOps
    /\ \E id \in Ids, working_dir \in Paths : set_working_directory(id, working_dir)
    /\ now' = now + 1
    /\ prev' = ret

\* ----------------------------------------------------- add_context_file
InSeq(x, s) == \E i \in DOMAIN s : s[i] = x

add_context_file(id, filename) ==
    IF id \notin DOMAIN sessions
    THEN /\ ret' = Op("addctx", id, NoTopic, FALSE, "")
         /\ UNCHANGED <<sessions, topic_sessions, global_active_session, disk, tmux>>
    ELSE IF ~InSeq(filename, sessions[id].context_files)
         THEN LET ss == [sessions EXCEPT ![id].context_files = Append(@, filename)]
              IN  /\ sessions' = ss
                  /\ disk' = save_session(ss, disk, id)
                  /\ ret' = Op("addctx", id, NoTopic, TRUE, "")
                  /\ UNCHANGED <<topic_sessions, global_active_session, tmux>>
         ELSE /\ ret' = Op("addctx", id, NoTopic, TRUE, "")
              /\ UNCHANGED <<sessions, topic_sessions, global_active_session, disk, tmux>>

AddContextFile ==
    /\ now < MaxOps
    /\ \E id \in Ids, filename \in Files : add_context_file(id, filename)
    /\ now' = now + 1
    /\ prev' = ret

\* ------------------------------------------------ recreate_tmux_session
\* tmux new-session -d -s name -c working_dir; a failure is printed and
\* swallowed.
recreate_tmux_session(tm, session_data, tmux_ok) ==
    IF tmux_ok
    THEN Put(tm, session_data.tmux_session, new_handle(session_data.working_dir))
    ELSE tm

\* -------------------------------------------------------- load_sessions
\* One iteration of the loop over base_dir.iterdir() for directory dir;
\* st holds the registry being built and the tmux server.
LoadOne(st, d, dir, tmux_ok) ==
    LET session_data == json_load(d[dir].session_json)
        session_id == session_data.id
        alive == session_data.tmux_session \in DOMAIN st.tmux
        topic == session_data.topic
    IN  [sessions |-> Put(st.sessions, session_id, session_data),
         tmux |-> IF alive THEN st.tmux
                  ELSE recreate_tmux_session(st.tmux, session_data, tmux_ok),
         topic_sessions |-> IF Truthy(topic)
                            THEN Put(st.topic_sessions, topic, session_id)
                            ELSE st.topic_sessions,
         global_active_session |-> IF st.global_active_session = NoId
                                   THEN session_id
                                   ELSE st.global_active_session]

RECURSIVE LoadFrom(_, _, _, _)
\* order: the directories of d in the order iterdir() yields them; failing:
\* the directories for which tmux new-session fails.
LoadFrom(st, d, order, failing) ==
    IF order = <<>>
    THEN st
    ELSE LoadFrom(LoadOne(st, d, Head(order), Head(order) \notin failing),
                  d, Tail(order), failing)

\* SessionManager.__init__ over the directories d and the tmux server tm:
\* empty maps, then load_sessions.
load_sessions(d, tm, order, failing) ==
    LoadFrom([sessions |-> <<>>, topic_sessions |-> <<>>,
              global_active_session |-> NoId, tmux |-> tm],
             d, order, failing)

Orders(S) ==
    {o \in [1..Cardinality(S) -> S] : \A i, j \in DOMAIN o : i # j => o[i] # o[j]}

DeadDirs == {dir \in DOMAIN disk : tmux_name(dir) \notin DOMAIN tmux}

\* The process stops and starts again over the same disk and tmux server.
\* load_sessions returns nothing; ret.ok records whether every tmux
\* new-session it issued succeeded.
Restart ==
    /\ now < MaxOps
    /\ \E order \in Orders(DOMAIN disk), failing \in SUBSET DeadDirs :
           LET st == load_sessions(disk, tmux, order, failing)
           IN  /\ sessions' = st.sessions
               /\ topic_sessions' = st.topic_sessions
               /\ global_active_session' = st.global_active_session
               /\ tmux' = st.tmux
               /\ ret' = Op("restart", NoId, NoTopic, failing = {}, "")
    /\ now' = now + 1
    /\ prev' = ret
    /\ UNCHANGED disk

\* ----------------------------------------------------------- environment
\* A tmux handle dies outside the program (tmux kill-session by hand, the
\* shell exits, the host reboots).
TmuxDies ==
    /\ now < MaxOps
    /\ \E name \in DOMAIN tmux :
           /\ tmux' = Del(tmux, name)
           /\ ret' = Op("tmux-dies", name[2], NoTopic, TRUE, "")
    /\ now' = now + 1
    /\ prev' = ret
    /\ UNCHANGED <<sessions, topic_sessions, global_active_session, disk>>

\* ------------------------------------------------------------------ text
\* str methods on a sequence of characters.
IsSpace(c) == c \in {" ", "\t", "\n"}

RECURSIVE LStrip(_)
LStrip(s) == IF s # <<>> /\ IsSpace(Head(s)) THEN LStrip(Tail(s)) ELSE s

RECURSIVE RStrip(_)
RStrip(s) ==
    IF s # <<>> /\ IsSpace(s[Len(s)]) THEN RStrip(SubSeq(s, 1, Len(s) - 1)) ELSE s

\* s.strip()
Strip(s) == RStrip(LStrip(s))

\* sub in s
Contains(s, sub) ==
    \E i \in 0..(Len(s) - Len(sub)) : SubSeq(s, i + 1, i + Len(sub)) = sub

\* s.startswith(p), s.endswith(p)
StartsWith(s, p) == Len(p) <= Len(s) /\ SubSeq(s, 1, Len(p)) = p

EndsWith(s, p) == Len(p) <= Len(s) /\ SubSeq(s, Len(s) - Len(p) + 1, Len(s)) = p

\* list(reversed(s))
Reverse(s) == [i \in 1..Len(s) |-> s[Len(s) + 1 - i]]

\* ------------------------------------------- execute_command: scraping
\* result.stdout.strip().split('\n') on the captured lines: the blank lines
\* at both ends go, the first line loses its leading and the last its
\* trailing whitespace; an all-blank capture gives one empty line.
RECURSIVE DropBlankHead(_)
DropBlankHead(lines) ==
    IF lines # <<>> /\ Strip(Head(lines)) = <<>>
    THEN DropBlankHead(Tail(lines))
    ELSE lines

StripSplit(lines) ==
    LET a == DropBlankHead(lines)
        b == Reverse(DropBlankHead(Reverse(a)))
    IN  IF b = <<>>
        THEN << <<>> >>
        ELSE [i \in 1..Len(b) |->
                 IF i = 1 /\ i = Len(b) THEN Strip(b[i])
                 ELSE IF i = 1 THEN LStrip(b[i])
                 ELSE IF i = Len(b) THEN RStrip(b[i])
                 ELSE b[i]]

\* The loop "for line in lines" of shell mode: the lines after a line equal
\* to the command.
RECURSIVE ShellScan(_, _, _, _)
ShellScan(lines, command, command_found, output_lines) ==
    IF lines = <<>>
    THEN output_lines
    ELSE LET line == Strip(Head(lines))
             rest == Tail(lines)
         IN  IF line = <<>>
             THEN ShellScan(rest, command, command_found, output_lines)
             ELSE IF line = command
             THEN ShellScan(rest, command, TRUE, output_lines)
             ELSE IF ~command_found /\ (Contains(line, <<"$">>) \/ Contains(line, <<">">>))
             THEN ShellScan(rest, command, command_found, output_lines)
             ELSE IF command_found
             THEN ShellScan(rest, command, command_found, Append(output_lines, line))
             ELSE ShellScan(rest, command, command_found, output_lines)

\* "for line in reversed(lines)": the last lines that are not blank, not the
\* command and do not end with '$', at most limit of them, newest first.
FallbackLimit == 3

RECURSIVE ShellMeaningful(_, _, _, _)
ShellMeaningful(reversed, command, limit, meaningful_lines) ==
    IF reversed = <<>> \/ Len(meaningful_lines) >= limit
    THEN meaningful_lines
    ELSE LET line == Strip(Head(reversed))
         IN  IF line # <<>> /\ line # command /\ ~EndsWith(line, <<"$">>)
             THEN ShellMeaningful(Tail(reversed), command, limit,
                                  Append(meaningful_lines, line))
             ELSE ShellMeaningful(Tail(reversed), command, limit, meaningful_lines)

\* output_lines before the length limit is applied.
ShellCandidate(command, captured) ==
    LET lines == StripSplit(captured)
        output_lines == ShellScan(lines, command, FALSE, <<>>)
    IN  IF output_lines # <<>>
        THEN output_lines
        ELSE Reverse(ShellMeaningful(Reverse(lines), command, FallbackLimit, <<>>))

TruncateOver == 15
KeepHead == 10
KeepTail == 3
TruncationMarker == <<".", ".", ".", " ", "(", "o", "u", "t", "p", "u", "t", " ",
                      "t", "r", "u", "n", "c", "a", "t", "e", "d", ")", " ", ".", ".", ".">>

\* Variant: the limit is applied from 15 lines on and keeps the last 5.
Truncate_Loose(output_lines) ==
    IF Len(output_lines) >= TruncateOver
    THEN SubSeq(output_lines, 1, KeepHead) \o <<TruncationMarker>>
         \o SubSeq(output_lines, Len(output_lines) - 4, Len(output_lines))
    ELSE output_lines

\* output_lines[:10] + ["... (output truncated) ..."] + output_lines[-3:]
Truncate(output_lines) ==
    IF Len(output_lines) > TruncateOver
    THEN SubSeq(output_lines, 1, KeepHead) \o <<TruncationMarker>>
         \o SubSeq(output_lines, Len(output_lines) - KeepTail + 1, Len(output_lines))
    ELSE output_lines

\* What execute_command returns for a capture: the lines joined by newlines,
\* or the sentence saying that the command gave no output.
ShellResult(output_lines, command) ==
    IF output_lines # <<>>
    THEN [kind |-> "text", lines |-> output_lines]
    ELSE [kind |-> "executed (no output)", command |-> command]

shell_scrape(command, captured) ==
    ShellResult(Truncate(ShellCandidate(command, captured)), command)

\* --------------------------------------------------- is_command_allowed
\* s.split(): the maximal runs of characters that are not whitespace.
RECURSIVE SplitFrom(_, _, _)
SplitFrom(s, word, words) ==
    IF s = <<>>
    THEN IF word = <<>> THEN words ELSE Append(words, word)
    ELSE IF IsSpace(Head(s))
    THEN SplitFrom(Tail(s), <<>>, IF word = <<>> THEN words ELSE Append(words, word))
    ELSE SplitFrom(Tail(s), Append(word, Head(s)), words)

Split(s) == SplitFrom(s, <<>>, <<>>)

\* config.get(key, []) on the security section.
ConfigGet(config, key) == IF key \in DOMAIN config THEN config[key] ELSE {}

\* command.split()[0] if command.split() else ""
cmd_start(command) == IF Split(command) # <<>> THEN Split(command)[1] ELSE <<>>

\* Variant: a configured block list decides alone.
is_command_allowed_BlockOnly(config, command) ==
    IF DOMAIN config = {}
    THEN TRUE
    ELSE IF ConfigGet(config, "blocked_commands") # {}
    THEN ~\E blocked_cmd \in ConfigGet(config, "blocked_commands") :
              Contains(command, blocked_cmd)
    ELSE IF ConfigGet(config, "allowed_commands") # {}
    THEN cmd_start(command) \in ConfigGet(config, "allowed_commands")
    ELSE TRUE

\* Variant: a first word on the allowed list is accepted at once.
is_command_allowed_AllowFirst(config, command) ==
    IF DOMAIN config = {}
    THEN TRUE
    ELSE IF cmd_start(command) \in ConfigGet(config, "allowed_commands")
    THEN TRUE
    ELSE IF \E blocked_cmd \in ConfigGet(config, "blocked_commands") :
                Contains(command, blocked_cmd)
    THEN FALSE
    ELSE ConfigGet(config, "allowed_commands") = {}

is_command_allowed(config, command) ==
    IF DOMAIN config = {}
    THEN TRUE
    ELSE IF \E blocked_cmd \in ConfigGet(config, "blocked_commands") :
                Contains(command, blocked_cmd)
    THEN FALSE
    ELSE IF ConfigGet(config, "allowed_commands") # {}
            /\ cmd_start(command) \notin ConfigGet(config, "allowed_commands")
    THEN FALSE
    ELSE TRUE

\* ------------------------------------------------------- text, continued
UpperCase == <<"A", "B", "C", "D", "E", "F", "G", "H", "I", "J", "K", "L", "M", "N", "O", "P", "Q", "R", "S", "T", "U", "V", "W", "X", "Y", "Z">>
LowerCase == <<"a", "b", "c", "d", "e", "f", "g", "h", "i", "j", "k", "l", "m", "n", "o", "p", "q", "r", "s", "t", "u", "v", "w", "x", "y", "z">>
Digits == <<"0", "1", "2", "3", "4", "5", "6", "7", "8", "9">>

IndexIn(c, table) == CHOOSE i \in DOMAIN table : table[i] = c

\* The lower-case letter of every upper-case letter.
LowerOf ==
    [c \in {UpperCase[i] : i \in DOMAIN UpperCase} |-> LowerCase[IndexIn(c, UpperCase)]]

\* s.lower()
Lower(s) == [i \in 1..Len(s) |-> IF s[i] \in DOMAIN LowerOf THEN LowerOf[s[i]] ELSE s[i]]

\* \w of the re module
IsWord(c) == InSeq(c, UpperCase) \/ InSeq(c, LowerCase) \/ InSeq(c, Digits) \/ c = "_"

IsQuote(c) == c \in {"\"", "'"}

\* " ".join(words)
RECURSIVE Join(_)
Join(words) ==
    IF words = <<>> THEN <<>>
    ELSE IF Len(words) = 1 THEN words[1]
    ELSE words[1] \o <<" ">> \o Join(Tail(words))

\* The text from position i on.
From(s, i) == SubSeq(s, i, Len(s))

\* The longest prefix of s whose characters are whitespace (ws = TRUE) or
\* are not whitespace (ws = FALSE): its length.
RECURSIVE RunLen(_, _)
RunLen(s, ws) ==
    IF s # <<>> /\ IsSpace(Head(s)) = ws THEN 1 + RunLen(Tail(s), ws) ELSE 0

\* The positions at which sub occurs in s.
Occurrences(s, sub) ==
    {i \in 1..(Len(s) - Len(sub) + 1) : SubSeq(s, i, i + Len(sub) - 1) = sub}

Min(S) == CHOOSE i \in S : \A j \in S : i <= j

\* re.sub(r'<[^>]+>', '', content): every "<", one or more characters other
\* than ">", ">" is removed, scanning from the left.
RECURSIVE StripTags(_)
StripTags(s) ==
    IF s = <<>>
    THEN <<>>
    ELSE IF Head(s) = "<" /\ Occurrences(s, <<">">>) # {} /\ Min(Occurrences(s, <<">">>)) > 2
    THEN StripTags(From(s, Min(Occurrences(s, <<">">>)) + 1))
    ELSE <<Head(s)>> \o StripTags(Tail(s))

\* --------------------------------------------------- is_natural_command
natural_commands ==
    { <<"s", "t", "a", "r", "t", " ", "c", "l", "a", "u", "d", "e">>,
      <<"c", "l", "a", "u", "d", "e", " ", "s", "t", "a", "r", "t">>,
      <<"s", "t", "a", "r", "t", " ", "c", "l", "a", "u", "d", "e", " ", "c", "o", "d", "e">>,
      <<"s", "t", "o", "p", " ", "c", "l", "a", "u", "d", "e">>,
      <<"c", "l", "a", "u", "d", "e", " ", "s", "t", "o", "p">>,
      <<"s", "t", "o", "p", " ", "c", "l", "a", "u", "d", "e", " ", "c", "o", "d", "e">>,
      <<"l", "i", "s", "t", " ", "s", "e", "s", "s", "i", "o", "n", "s">>,
      <<"s", "h", "o", "w", " ", "s", "e", "s", "s", "i", "o", "n", "s">>,
      <<"l", "i", "s", "t", " ", "a", "l", "l", " ", "s", "e", "s", "s", "i", "o", "n", "s">>,
      <<"n", "e", "w", " ", "s", "e", "s", "s", "i", "o", "n">>,
      <<"c", "r", "e", "a", "t", "e", " ", "s", "e", "s", "s", "i", "o", "n">>,
      <<"c", "r", "e", "a", "t", "e", " ", "n", "e", "w", " ", "s", "e", "s", "s", "i", "o", "n">>,
      <<"s", "w", "i", "t", "c", "h", " ", "s", "e", "s", "s", "i", "o", "n">>,
      <<"c", "h", "a", "n", "g", "e", " ", "s", "e", "s", "s", "i", "o", "n">>,
      <<"s", "w", "i", "t", "c", "h", " ", "t", "o", " ", "s", "e", "s", "s", "i", "o", "n">>,
      <<"h", "e", "l", "p">>,
      <<"s", "h", "o", "w", " ", "h", "e", "l", "p">>,
      <<"b", "o", "t", " ", "h", "e", "l", "p">> }

is_natural_command(content) ==
    LET content_lower == Lower(content)
    IN  \E cmd \in natural_commands : Contains(content_lower, cmd)

\* ----------------------------------------------- convert_natural_command
\* re.search(r'cd\s+([^\s]+)', content): group 1 of the leftmost match, or
\* <<>> when nothing matches.
CdMatches(content) ==
    {i \in Occurrences(content, <<"c", "d">>) :
        /\ RunLen(From(content, i + 2), TRUE) >= 1
        /\ RunLen(From(content, i + 2 + RunLen(From(content, i + 2), TRUE)), FALSE) >= 1}

CdGroup(content) ==
    IF CdMatches(content) = {}
    THEN <<>>
    ELSE LET i == Min(CdMatches(content))
             start == i + 2 + RunLen(From(content, i + 2), TRUE)
         IN  SubSeq(content, start, start + RunLen(From(content, start), FALSE) - 1)

\* The longest prefix of s without a quote character: its length.
RECURSIVE UnquotedLen(_)
UnquotedLen(s) ==
    IF s # <<>> /\ ~IsQuote(Head(s)) THEN 1 + UnquotedLen(Tail(s)) ELSE 0

Called == <<"c", "a", "l", "l", "e", "d">>

\* The ways the optional part of
\*   (?:new|create) session(?:\s+(?:called\s+)?["\']?([^"\']+)["\']?)?
\* can match the text r that follows "session": w whitespace characters,
\* then "called" and w2 whitespace characters if c, then a quote if q, then
\* at least one character that is not a quote.
NameParses(r) ==
    {x \in [w : 1..Len(r), c : BOOLEAN, w2 : 0..Len(r), q : BOOLEAN] :
        LET pos == x.w + (IF x.c THEN 6 + x.w2 ELSE 0) + (IF x.q THEN 1 ELSE 0)
        IN  /\ \A i \in 1..x.w : IsSpace(r[i])
            /\ x.c => /\ x.w2 >= 1
                      /\ x.w + 6 + x.w2 <= Len(r)
                      /\ SubSeq(r, x.w + 1, x.w + 6) = Called
                      /\ \A i \in 1..x.w2 : IsSpace(r[x.w + 6 + i])
            /\ ~x.c => x.w2 = 0
            /\ pos + 1 <= Len(r)
            /\ x.q => IsQuote(r[pos])
            /\ ~IsQuote(r[pos + 1])}

\* The order in which the backtracking matcher tries them: longest
\* whitespace first, "called" before its absence, the quote before its
\* absence.
TriedBefore(x, y) ==
    \/ x.w > y.w
    \/ x.w = y.w /\ x.c /\ ~y.c
    \/ x.w = y.w /\ x.c = y.c /\ x.w2 > y.w2
    \/ x.w = y.w /\ x.c = y.c /\ x.w2 = y.w2 /\ x.q /\ ~y.q

NewSession == <<"n", "e", "w", " ", "s", "e", "s", "s", "i", "o", "n">>
CreateSessionPhrase == <<"c", "r", "e", "a", "t", "e", " ", "s", "e", "s", "s", "i", "o", "n">>

\* match.group(1) of the search in content_lower, <<>> when the group did
\* not take part (or nothing matched).
NameGroup(content_lower) ==
    LET news == Occurrences(content_lower, NewSession)
        creates == Occurrences(content_lower, CreateSessionPhrase)
    IN  IF news \cup creates = {}
        THEN <<>>
        ELSE LET start == Min(news \cup creates)
                 r == From(content_lower,
                           start + (IF start \in news THEN Len(NewSession)
                                    ELSE Len(CreateSessionPhrase)))
                 parses == NameParses(r)
             IN  IF parses = {}
                 THEN <<>>
                 ELSE LET x == CHOOSE x \in parses :
                                   \A y \in parses : y = x \/ TriedBefore(x, y)
                          pos == x.w + (IF x.c THEN 6 + x.w2 ELSE 0)
                                     + (IF x.q THEN 1 ELSE 0)
                      IN  SubSeq(r, pos + 1, pos + UnquotedLen(From(r, pos + 1)))

\* The longest prefix of s made of word characters: its length.
RECURSIVE WordLen(_)
WordLen(s) == IF s # <<>> /\ IsWord(Head(s)) THEN 1 + WordLen(Tail(s)) ELSE 0

SessionWord == <<"s", "e", "s", "s", "i", "o", "n">>

\* re.search(r'session\s+(\w+)', content_lower): group 1, or <<>>.
SessionMatches(content_lower) ==
    {i \in Occurrences(content_lower, SessionWord) :
        /\ RunLen(From(content_lower, i + 7), TRUE) >= 1
        /\ WordLen(From(content_lower, i + 7 + RunLen(From(content_lower, i + 7), TRUE))) >= 1}

SessionGroup(content_lower) ==
    IF SessionMatches(content_lower) = {}
    THEN <<>>
    ELSE LET i == Min(SessionMatches(content_lower))
             start == i + 7 + RunLen(From(content_lower, i + 7), TRUE)
         IN  SubSeq(content_lower, start, start + WordLen(From(content_lower, start)) - 1)

SlashClaudeStart == <<"/", "c", "l", "a", "u", "d", "e", "-", "s", "t", "a", "r", "t">>
SlashClaudeStop == <<"/", "c", "l", "a", "u", "d", "e", "-", "s", "t", "o", "p">>
SlashWorkingDir == <<"/", "w", "o", "r", "k", "i", "n", "g", "-", "d", "i", "r">>
SlashListSessions == <<"/", "l", "i", "s", "t", "-", "s", "e", "s", "s", "i", "o", "n", "s">>
SlashNewSession == <<"/", "n", "e", "w", "-", "s", "e", "s", "s", "i", "o", "n">>
SlashSwitchSession == <<"/", "s", "w", "i", "t", "c", "h", "-", "s", "e", "s", "s", "i", "o", "n">>
SlashHelp == <<"/", "h", "e", "l", "p">>

convert_natural_command(content) ==
    LET content_lower == Lower(content)
        has(phrase) == Contains(content_lower, phrase)
    IN  IF has(<<"s", "t", "a", "r", "t", " ", "c", "l", "a", "u", "d", "e">>) \/ has(<<"c", "l", "a", "u", "d", "e", " ", "s", "t", "a", "r", "t">>)
        THEN SlashClaudeStart
        ELSE IF has(<<"s", "t", "o", "p", " ", "c", "l", "a", "u", "d", "e">>) \/ has(<<"c", "l", "a", "u", "d", "e", " ", "s", "t", "o", "p">>)
        THEN SlashClaudeStop
        ELSE IF has(<<"c", "h", "a", "n", "g", "e", " ", "d", "i", "r", "e", "c", "t", "o", "r", "y">>) \/ Contains(content, <<"c", "d", " ">>)
        THEN IF Contains(content, <<"c", "d", " ">>) /\ CdGroup(content) # <<>>
             THEN SlashWorkingDir \o <<" ">> \o CdGroup(content)
             ELSE content
        ELSE IF has(<<"l", "i", "s", "t", " ", "s", "e", "s", "s", "i", "o", "n", "s">>) \/ has(<<"s", "h", "o", "w", " ", "s", "e", "s", "s", "i", "o", "n", "s">>)
        THEN SlashListSessions
        ELSE IF has(NewSession) \/ has(CreateSessionPhrase)
        THEN IF NameGroup(content_lower) # <<>>
             THEN SlashNewSession \o <<" ", "\"">> \o Strip(NameGroup(content_lower))
                  \o <<"\"">>
             ELSE SlashNewSession
        ELSE IF has(<<"s", "w", "i", "t", "c", "h">>) /\ has(SessionWord)
        THEN IF SessionGroup(content_lower) # <<>>
             THEN SlashSwitchSession \o <<" ">> \o SessionGroup(content_lower)
             ELSE SlashListSessions
        ELSE IF has(<<"h", "e", "l", "p">>)
        THEN SlashHelp
        ELSE SlashHelp

\* -------------------------------------------------- send_to_claude_code
\* The loop of assistant mode: the lines after the first line that contains
\* the message (case ignored), without those ending in "$" or starting with
\* the box border.
\* The character U+2502 (box drawings light vertical).
BoxBorder == "U+2502"

RECURSIVE ClaudeScan(_, _, _, _)
ClaudeScan(lines, message, found_command, output_lines) ==
    IF lines = <<>>
    THEN output_lines
    ELSE LET line == Strip(Head(lines))
             rest == Tail(lines)
         IN  IF line = <<>>
             THEN ClaudeScan(rest, message, found_command, output_lines)
             ELSE IF Contains(Lower(line), Lower(message))
             THEN ClaudeScan(rest, message, TRUE, output_lines)
             ELSE IF found_command /\ ~EndsWith(line, <<"$">>) /\ ~StartsWith(line, <<BoxBorder>>)
             THEN ClaudeScan(rest, message, found_command, Append(output_lines, line))
             ELSE ClaudeScan(rest, message, found_command, output_lines)

ClaudeTail == 20
ClaudeLimit == 10

\* "for line in reversed(lines[-20:])": up to 10 lines that are not blank and
\* do not end with "$", newest first.
RECURSIVE ClaudeMeaningful(_, _)
ClaudeMeaningful(reversed, meaningful_lines) ==
    IF reversed = <<>> \/ Len(meaningful_lines) >= ClaudeLimit
    THEN meaningful_lines
    ELSE LET line == Strip(Head(reversed))
         IN  IF line # <<>> /\ ~EndsWith(line, <<"$">>)
             THEN ClaudeMeaningful(Tail(reversed), Append(meaningful_lines, line))
             ELSE ClaudeMeaningful(Tail(reversed), meaningful_lines)

LastLines(lines, n) ==
    IF Len(lines) > n THEN SubSeq(lines, Len(lines) - n + 1, Len(lines)) ELSE lines

claude_scrape(message, captured) ==
    LET lines == StripSplit(captured)
        output_lines == ClaudeScan(lines, message, FALSE, <<>>)
        result == IF output_lines # <<>>
                  THEN output_lines
                  ELSE Reverse(ClaudeMeaningful(Reverse(LastLines(lines, ClaudeTail)), <<>>))
    IN  IF result # <<>>
        THEN [kind |-> "text", lines |-> result]
        ELSE [kind |-> "sent to Claude Code", command |-> message]

\* ------------------------------------------------------- execute_command
CtrlC == <<"C-c">>

\* Whether tmux send-keys with check=True succeeds on the session's handle.
Alive(tm, id) == sessions[id].tmux_session \in DOMAIN tm

\* Variant: the interrupt key is sent on the assistant path too.
execute_command_InterruptAlways(command, id, captured) ==
    LET session == sessions[id]
        name == session.tmux_session
        assistant == session.claude_code_active /\ ~StartsWith(command, <<"/">>)
    IN  IF ~is_command_allowed(security_config, command)
        THEN [tmux |-> tmux,
              result |-> [kind |-> "blocked", command |-> command],
              ret |-> Op("execute", id, NoTopic, FALSE, "blocked")]
        ELSE IF Alive(tmux, id)
        THEN [tmux |-> send_keys(send_keys(tmux, name, CtrlC), name, <<command, "Enter">>),
              result |-> IF assistant THEN claude_scrape(command, captured)
                         ELSE shell_scrape(command, captured),
              ret |-> Op("execute", id, NoTopic, TRUE,
                         IF assistant THEN "claude" ELSE "shell")]
        ELSE [tmux |-> tmux,
              result |-> [kind |-> "Command execution failed"],
              ret |-> Op("execute", id, NoTopic, FALSE,
                         IF assistant THEN "claude" ELSE "shell")]

\* execute_command(command, session) for the registered session id, when
\* capture-pane prints captured: the tmux server afterwards, the result
\* returned, and the path taken.
execute_command(command, id, captured) ==
    LET session == sessions[id]
        name == session.tmux_session
    IN  IF ~is_command_allowed(security_config, command)
        THEN [tmux |-> tmux,
              result |-> [kind |-> "blocked", command |-> command],
              ret |-> Op("execute", id, NoTopic, FALSE, "blocked")]
        ELSE IF session.claude_code_active /\ ~StartsWith(command, <<"/">>)
        THEN IF Alive(tmux, id)
             THEN [tmux |-> send_keys(tmux, name, <<command, "Enter">>),
                   result |-> claude_scrape(command, captured),
                   ret |-> Op("execute", id, NoTopic, TRUE, "claude")]
             ELSE [tmux |-> tmux,
                   result |-> [kind |-> "Claude Code communication error"],
                   ret |-> Op("execute", id, NoTopic, FALSE, "claude")]
        ELSE IF Alive(tmux, id)
             THEN [tmux |-> send_keys(send_keys(tmux, name, CtrlC), name,
                                      <<command, "Enter">>),
                   result |-> shell_scrape(command, captured),
                   ret |-> Op("execute", id, NoTopic, TRUE, "shell")]
             ELSE [tmux |-> tmux,
                   result |-> [kind |-> "Command execution failed"],
                   ret |-> Op("execute", id, NoTopic, FALSE, "shell")]

\* ----------------------------------------------------- start_claude_code
executable == <<"c", "l", "a", "u", "d", "e", "_", "c", "o", "d", "e">>

\* f"cd {working_dir} && {executable}"
StartCommand(working_dir) == CdCommand(working_dir) \o <<" ", "&", "&", " ">> \o executable

\* start_claude_code(session) with auto_context off; which_ok: `which
\* executable` finds the program.  The flag is set on the session dict and
\* nothing is saved.
start_claude_code(id, which_ok) ==
    /\ UNCHANGED <<topic_sessions, global_active_session, disk>>
    /\ IF ~which_ok
       THEN /\ out' = [kind |-> "Claude Code not found"]
            /\ ret' = Op("claude-start", id, NoTopic, FALSE, "which")
            /\ UNCHANGED <<sessions, tmux>>
       ELSE IF ~Alive(tmux, id)
       THEN /\ out' = [kind |-> "Failed to start Claude Code"]
            /\ ret' = Op("claude-start", id, NoTopic, FALSE, "send-keys")
            /\ UNCHANGED <<sessions, tmux>>
       ELSE /\ tmux' = send_keys(send_keys(tmux, sessions[id].tmux_session,
                                           <<StartCommand(sessions[id].working_dir), "Enter">>),
                                 sessions[id].tmux_session, <<"Enter">>)
            /\ sessions' = [sessions EXCEPT ![id].claude_code_active = TRUE]
            /\ out' = [kind |-> "Claude Code started", id |-> id]
            /\ ret' = Op("claude-start", id, NoTopic, TRUE, "")

\* ------------------------------------------------------ stop_claude_code
Exit == <<"e", "x", "i", "t">>

stop_claude_code(id) ==
    /\ UNCHANGED <<topic_sessions, global_active_session, disk>>
    /\ IF ~Alive(tmux, id)
       THEN /\ out' = [kind |-> "Error stopping Claude Code"]
            /\ ret' = Op("claude-stop", id, NoTopic, FALSE, "send-keys")
            /\ UNCHANGED <<sessions, tmux>>
       ELSE /\ tmux' = send_keys(send_keys(tmux, sessions[id].tmux_session,
                                           <<Exit, "Enter">>),
                                 sessions[id].tmux_session, CtrlC)
            /\ sessions' = [sessions EXCEPT ![id].claude_code_active = FALSE]
            /\ out' = [kind |-> "Claude Code stopped"]
            /\ ret' = Op("claude-stop", id, NoTopic, TRUE, "")

\* ------------------------------------------------ get_claude_code_status
get_claude_code_status(id) ==
    /\ UNCHANGED <<topic_sessions, global_active_session, disk, tmux>>
    /\ IF ~sessions[id].claude_code_active
       THEN /\ out' = [kind |-> "Claude Code is not active"]
            /\ ret' = Op("claude-status", id, NoTopic, TRUE, "")
            /\ UNCHANGED sessions
       ELSE IF Alive(tmux, id)
       THEN /\ out' = [kind |-> "Claude Code is active"]
            /\ ret' = Op("claude-status", id, NoTopic, TRUE, "")
            /\ UNCHANGED sessions
       ELSE /\ sessions' = [sessions EXCEPT ![id].claude_code_active = FALSE]
            /\ out' = [kind |-> "Claude Code session appears to be dead"]
            /\ ret' = Op("claude-status", id, NoTopic, FALSE, "dead")

\* --------------------------------------------------------- handle_command
\* The session id written in a message: three digits name an id, anything
\* else is the key of no session.
ParseId(arg) ==
    IF Len(arg) = 3 /\ \A i \in 1..3 : InSeq(arg[i], Digits)
    THEN [i \in 1..3 |-> IndexIn(arg[i], Digits) - 1]
    ELSE NoId

\* f"session-{n}" for n below 10
DefaultName(n) == <<"s", "e", "s", "s", "i", "o", "n", "-">> \o <<Digits[n + 1]>>

GitPrefix == <<"g", "i", "t", "/">>
GitHome == <<"/", "U", "s", "e", "r", "s", "/", "d", "g", "o", "o", "2", "3", "0", "8", "/", "g", "i", "t", "/">>
Odoo18 == <<"o", "d", "o", "o", "1", "8">>

\* The shortcuts of /working-dir.
ExpandShortcut(new_dir) ==
    IF StartsWith(new_dir, GitPrefix)
    THEN GitHome \o From(new_dir, Len(GitPrefix) + 1)
    ELSE IF new_dir = Odoo18
    THEN GitHome \o Odoo18
    ELSE new_dir

\* A call that only answers: the registry and the tmux server stay.
Answer(topic, reply) ==
    /\ out' = reply
    /\ ret' = Op("reply", NoId, topic, TRUE, "")
    /\ UNCHANGED <<sessions, topic_sessions, global_active_session, disk, tmux>>

handle_command(command, topic) ==
    LET parts == IF command = <<>> THEN <<>> ELSE Split(Tail(command))
        cmd == IF parts # <<>> THEN parts[1] ELSE <<>>
        args == IF Len(parts) > 1 THEN Tail(parts) ELSE <<>>
        current == get_current_session(sessions, topic_sessions,
                                       global_active_session, topic)
    IN  IF cmd = Tail(SlashNewSession)
        THEN LET name == IF args # <<>> THEN Join(args)
                         ELSE DefaultName(Cardinality(DOMAIN sessions) + 1)
             IN  \E tmux_ok \in BOOLEAN :
                     /\ create_session(name, topic, tmux_ok)
                     /\ out' = IF ret'.ok
                               THEN [kind |-> "Created session", id |-> ret'.id,
                                     name |-> name]
                               ELSE [kind |-> "Command failed", err |-> ret'.err]
        ELSE IF cmd = Tail(SlashListSessions)
        THEN Answer(topic,
                    IF DOMAIN sessions = {}
                    THEN [kind |-> "No active sessions"]
                    ELSE [kind |-> "Active sessions",
                          list |-> {<<id, sessions[id].name>> : id \in DOMAIN sessions}])
        ELSE IF cmd = Tail(SlashSwitchSession)
        THEN IF args = <<>>
             THEN Answer(topic, [kind |-> "Usage: /switch-session <session_id>"])
             ELSE /\ switch_session(ParseId(args[1]), topic)
                  /\ out' = IF ret'.ok
                            THEN [kind |-> "Switched to session", arg |-> args[1]]
                            ELSE [kind |-> "Session not found", arg |-> args[1]]
        ELSE IF cmd = Tail(SlashClaudeStart)
        THEN IF current # NoId
             THEN \E which_ok \in BOOLEAN : start_claude_code(current, which_ok)
             ELSE Answer(topic, [kind |-> "No active session. Use /new-session first."])
        ELSE IF cmd = Tail(SlashWorkingDir)
        THEN IF args = <<>>
             THEN Answer(topic, [kind |-> "Usage: /working-dir <path>"])
             ELSE IF current # NoId
             THEN LET new_dir == ExpandShortcut(Join(args))
                  IN  /\ set_working_directory(current, new_dir)
                      /\ out' = IF ret'.ok
                                THEN [kind |-> "Working directory changed to",
                                      dir |-> new_dir]
                                ELSE [kind |-> "Directory not found", dir |-> new_dir]
             ELSE Answer(topic, [kind |-> "No active session. Use /new-session first."])
        ELSE IF cmd = Tail(SlashHelp)
        THEN Answer(topic, [kind |-> "help"])
        ELSE Answer(topic, [kind |-> "Unknown command", cmd |-> cmd])

\* --------------------------------------------------- handle_terminal_input
\* A shell prompt, a command and the line it prints.
EchoHi == <<"e", "c", "h", "o", " ", "h", "i">>
Hi == <<"h", "i">>
PromptText == <<"u", "s", "e", "r", "@", "h", "o", "s", "t", ":", "~", "$">>

\* What capture-pane can print after command was typed.
Captures(command) ==
    { <<PromptText \o <<" ">> \o command, Hi, PromptText>>,
      <<command, Hi>> }

handle_terminal_input(content, topic) ==
    LET current == get_current_session(sessions, topic_sessions,
                                       global_active_session, topic)
    IN  IF current = NoId
        THEN Answer(topic, [kind |-> "No active session. Use /new-session to create one."])
        ELSE \E captured \in Captures(content) :
                 LET r == execute_command(content, current, captured)
                 IN  /\ tmux' = r.tmux
                     /\ out' = [kind |-> "terminal", result |-> r.result]
                     /\ ret' = r.ret
                     /\ UNCHANGED <<sessions, topic_sessions, global_active_session, disk>>

\* ----------------------------------------------------------- handle_message
BotEmail == "bot@example.org"
UserEmail == "user@example.org"

\* f"pm-{sender.split('@')[0]}"
PmTopic(sender) == IF sender = UserEmail THEN "pm-user" ELSE "pm-bot"

\* The branch handle_message takes for the cleaned content.
Route(content) ==
    IF StartsWith(content, <<"/">>) THEN "command"
    ELSE IF is_natural_command(content) THEN "natural"
    ELSE "terminal"

\* message['content'].strip(), tags removed, stripped again
Clean(content) == Strip(StripTags(Strip(content)))

\* message.get(key, default)
MsgGet(message, key, default) == IF key \in DOMAIN message THEN message[key] ELSE default

\* The topic handle_message works out for a message.
TopicOf(message) ==
    IF MsgGet(message, "type", "stream") = "private"
    THEN PmTopic(message.sender_email)
    ELSE MsgGet(message, "subject", "general")

\* An exception leaves handle_message: the registry and the handles stay as
\* they are and nothing is sent.
Raise(exc) ==
    /\ out' = [kind |-> "raised", exc |-> exc]
    /\ ret' = Op("raised", NoId, NoTopic, FALSE, exc)
    /\ UNCHANGED <<sessions, topic_sessions, global_active_session, disk, tmux>>

\* Variant: the bot's own messages are routed like any other.
Dispatch_OwnToo(message) ==
    LET content == Clean(message.content)
    IN  IF Route(content) = "command"
        THEN handle_command(content, TopicOf(message))
        ELSE IF Route(content) = "natural"
        THEN handle_command(convert_natural_command(content), TopicOf(message))
        ELSE handle_terminal_input(content, TopicOf(message))

\* handle_message from the reading of the content on, for a message that
\* has its content and its sender.
Dispatch(message) ==
    LET content == Clean(message.content)
        topic == TopicOf(message)
    IN  IF message.sender_email = BotEmail
        THEN /\ out' = None
             /\ ret' = Op("own message", NoId, topic, TRUE, "")
             /\ UNCHANGED <<sessions, topic_sessions, global_active_session, disk, tmux>>
        ELSE IF Route(content) = "command"
        THEN handle_command(content, topic)
        ELSE IF Route(content) = "natural"
        THEN handle_command(convert_natural_command(content), topic)
        ELSE handle_terminal_input(content, topic)

\* message['content'] or message['sender_email'] raises KeyError inside the
\* try block before message_type is assigned; the except block then reads
\* message_type and raises UnboundLocalError, which leaves handle_message.
ReadFields(message) ==
    IF "content" \notin DOMAIN message \/ "sender_email" \notin DOMAIN message
    THEN Raise("UnboundLocalError")
    ELSE Dispatch(message)

\* Variant: every delivery is handled, seen before or not.
handle_message_NoDedupe(message) ==
    /\ inp' = message
    /\ UNCHANGED security_config
    /\ processed_messages' = processed_messages \cup {message.id}
    /\ ReadFields(message)

handle_message(message) ==
    /\ inp' = message
    /\ UNCHANGED security_config
    /\ IF message.id \in processed_messages
       THEN /\ out' = None
            /\ ret' = Op("duplicate", NoId, NoTopic, TRUE, "")
            /\ UNCHANGED <<processed_messages, sessions, topic_sessions,
                           global_active_session, disk, tmux>>
       ELSE /\ processed_messages' = processed_messages \cup {message.id}
            /\ ReadFields(message)

\* ------------------------------------------------------------------ spec
Init ==
    /\ sessions = <<>>
    /\ topic_sessions = <<>>
    /\ global_active_session = NoId
    /\ disk = <<>>
    /\ tmux = <<>>
    /\ now = 0
    /\ ret = NoOp
    /\ prev = NoOp
    /\ security_config = <<>>
    /\ processed_messages = {}
    /\ inp = None
    /\ out = None

Next ==
    /\ \/ CreateSession
       \/ SwitchSession
       \/ GetCurrentSession
       \/ SleepSession
       \/ KillSession
       \/ SetWorkingDirectory
       \/ AddContextFile
       \/ Restart
       \/ TmuxDies
    /\ UNCHANGED aux

Spec == Init /\ [][Next]_vars

\* ---------------------------------------------------- scraping a capture
\* A pane is captured after a command was typed; execute_command turns the
\* capture into the reply.  inp holds the command and the captured lines,
\* out the reply.
MaxScreen == 3
MaxFlood == 17

ShellCommands == {EchoHi, <<"l", "s">>}

\* A line a pane can show around a command: the prompt with the command
\* typed after it, the command alone, the command indented, an output line,
\* the bare prompt, a continuation prompt, a blank line.
ScreenLines(command) ==
    { PromptText \o <<" ">> \o command,
      command,
      <<" ", " ">> \o command,
      Hi,
      PromptText,
      <<">", " ", "x">>,
      <<" ">> }

\* The i-th line of a long listing.
ListingLine(i) == [k \in 1..i |-> "x"]

ScrInit ==
    /\ sessions = <<>>
    /\ topic_sessions = <<>>
    /\ global_active_session = NoId
    /\ disk = <<>>
    /\ tmux = <<>>
    /\ now = 0
    /\ ret = NoOp
    /\ prev = NoOp
    /\ security_config = <<>>
    /\ processed_messages = {}
    /\ \E command \in ShellCommands : inp = [command |-> command, captured |-> <<>>]
    /\ out = None

\* The pane shows one more line.
ScrShow ==
    /\ out = None
    /\ Len(inp.captured) < MaxScreen
    /\ \E line \in ScreenLines(inp.command) :
           inp' = [inp EXCEPT !.captured = Append(@, line)]
    /\ UNCHANGED <<out, sessions, topic_sessions, global_active_session, disk, tmux,
                   now, ret, prev, security_config, processed_messages>>

\* The command prints a listing of n lines.
ScrListing ==
    /\ out = None
    /\ Len(inp.captured) <= MaxScreen
    /\ \E n \in (TruncateOver - 2)..MaxFlood :
           inp' = [inp EXCEPT !.captured = @ \o [i \in 1..n |-> ListingLine(i)]]
    /\ UNCHANGED <<out, sessions, topic_sessions, global_active_session, disk, tmux,
                   now, ret, prev, security_config, processed_messages>>

\* execute_command processes the capture.
ScrScrape ==
    /\ out = None
    /\ out' = shell_scrape(inp.command, inp.captured)
    /\ UNCHANGED <<inp, sessions, topic_sessions, global_active_session, disk, tmux,
                   now, ret, prev, security_config, processed_messages>>

ScrNext == ScrShow \/ ScrListing \/ ScrScrape

ScrapeSpec == ScrInit /\ [][ScrNext]_vars

\* ------------------------------------------------------ the security gate
\* The bridge is built with a security section and is asked about commands:
\* inp is the command, out the answer of is_command_allowed.
RmRf == <<"r", "m", " ", "-", "r", "f">>
Sudo == <<"s", "u", "d", "o">>
Echo == <<"e", "c", "h", "o">>
Rm == <<"r", "m">>
BlockedWords == {RmRf, Sudo}
AllowedWords == {Echo, Rm}

\* The security sections: none (or an empty one), or one with a block list,
\* an allow list or both, each possibly empty.
SecurityConfigs ==
    { [k \in {} |-> {}] }
    \cup { [blocked_commands |-> b] : b \in SUBSET BlockedWords }
    \cup { [allowed_commands |-> a] : a \in SUBSET AllowedWords }
    \cup { [blocked_commands |-> b, allowed_commands |-> a] :
             b \in SUBSET BlockedWords, a \in SUBSET AllowedWords }

GateCommands ==
    { <<"r", "m", " ", "-", "r", "f", " ", "/", "t", "m", "p">>,
      <<"e", "c", "h", "o", " ", "r", "m", " ", "-", "r", "f", " ", "x">>,
      <<" ", " ", "s", "u", "d", "o", " ", "l", "s">>,
      EchoHi,
      <<"l", "s">>,
      <<"r", "m", " ", "x">>,
      <<" ", " ">>,
      <<>> }

GateInit ==
    /\ sessions = <<>>
    /\ topic_sessions = <<>>
    /\ global_active_session = NoId
    /\ disk = <<>>
    /\ tmux = <<>>
    /\ now = 0
    /\ ret = NoOp
    /\ prev = NoOp
    /\ security_config \in SecurityConfigs
    /\ processed_messages = {}
    /\ inp = None
    /\ out = None

\* A command arrives at the gate.
GateAsk ==
    /\ \E command \in GateCommands : inp' = [command |-> command]
    /\ out' = None
    /\ UNCHANGED <<sessions, topic_sessions, global_active_session, disk, tmux,
                   now, ret, prev, security_config, processed_messages>>

\* is_command_allowed answers.
GateCheck ==
    /\ inp # None
    /\ out = None
    /\ out' = [allowed |-> is_command_allowed(security_config, inp.command)]
    /\ UNCHANGED <<inp, sessions, topic_sessions, global_active_session, disk, tmux,
                   now, ret, prev, security_config, processed_messages>>

GateNext == GateAsk \/ GateCheck

GateSpec == GateInit /\ [][GateNext]_vars

\* ------------------------------------------------------------------ the bot
\* The bot is constructed over a base directory and a security section and
\* then handles messages, while the sessions are also used through the
\* manager's and the bridge's methods, handles die and the process restarts.
MaxMsgs == 2

Demo == <<"d", "e", "m", "o">>

StreamContents ==
    { <<"/", "n", "e", "w", "-", "s", "e", "s", "s", "i", "o", "n">>,
      <<"/", "l", "i", "s", "t", "-", "s", "e", "s", "s", "i", "o", "n", "s">>,
      <<"/", "s", "w", "i", "t", "c", "h", "-", "s", "e", "s", "s", "i", "o", "n", " ", "0", "0", "1">>,
      <<"/", "w", "o", "r", "k", "i", "n", "g", "-", "d", "i", "r", " ", "/", "t", "m", "p">>,
      <<"/", "c", "l", "a", "u", "d", "e", "-", "s", "t", "a", "r", "t">>,
      <<"/", "c", "l", "a", "u", "d", "e", "-", "s", "t", "o", "p">>,
      <<"/", "c", "l", "a", "u", "d", "e", "-", "s", "t", "a", "t", "u", "s">>,
      <<"/", "h", "e", "l", "p">>,
      <<"/", "b", "o", "g", "u", "s">>,
      <<"c", "d", " ", "/", "t", "m", "p">>,
      <<"c", "r", "e", "a", "t", "e", " ", "s", "e", "s", "s", "i", "o", "n", " ", "c", "a", "l", "l", "e", "d", " ", "d", "e", "m", "o">>,
      <<"c", "r", "e", "a", "t", "e", " ", "s", "e", "s", "s", "i", "o", "n", " ", "c", "a", "l", "l", "e", "d", " ", "D", "e", "m", "o">>,
      <<"e", "c", "h", "o", " ", "h", "i">>,
      <<"<", "p", ">", "s", "t", "o", "p", " ", "c", "l", "a", "u", "d", "e", "<", "/", "p", ">">> }

PrivateContents == {SlashNewSession, EchoHi}

OwnContents == {SlashNewSession, EchoHi}

\* The events the chat server can deliver as number n.
Events(n) ==
    { [n |-> n, content |-> c, sender_email |-> UserEmail, type |-> "stream",
       subject |-> "t1"] : c \in StreamContents }
    \cup { [n |-> n, content |-> c, sender_email |-> UserEmail, type |-> "private",
            subject |-> NoTopic] : c \in PrivateContents }
    \cup { [n |-> n, content |-> c, sender_email |-> BotEmail, type |-> "stream",
            subject |-> "t1"] : c \in OwnContents }
    \cup { [n |-> n, sender_email |-> UserEmail, type |-> "stream", subject |-> "t1"],
           [n |-> n, content |-> SlashHelp, type |-> "stream", subject |-> "t1"] }

\* message.get('id') identifies the event.
Message(event) == [id |-> event] @@ event

\* The base directory the bot starts over: empty, or holding session 001 of
\* topic t1 as an earlier run saved it one tick before this one started.
SavedDirs ==
    { <<>> }
    \cup { Put(<<>>, Pad3(1),
               [session_json |->
                    json_dump([new_session_data(Pad3(1), Demo, "t1", -1)
                                   EXCEPT !.claude_code_active = active]),
                context |-> {}]) : active \in BOOLEAN }

BotConfigs == { [k \in {} |-> {}], [allowed_commands |-> {Echo}] }

BotInit ==
    /\ \E d \in SavedDirs :
           LET st == load_sessions(d, <<>>, CHOOSE o \in Orders(DOMAIN d) : TRUE, {})
           IN  /\ disk = d
               /\ sessions = st.sessions
               /\ topic_sessions = st.topic_sessions
               /\ global_active_session = st.global_active_session
               /\ tmux = st.tmux
    /\ now = 0
    /\ ret = NoOp
    /\ prev = NoOp
    /\ security_config \in BotConfigs
    /\ processed_messages = {}
    /\ inp = None
    /\ out = None

HandleMessage ==
    /\ now < MaxMsgs
    /\ \E event \in Events(now + 1) \cup processed_messages :
           handle_message(Message(event))
    /\ now' = now + 1
    /\ prev' = ret

StopClaudeCode ==
    /\ now < MaxMsgs
    /\ \E id \in DOMAIN sessions : stop_claude_code(id)
    /\ now' = now + 1
    /\ prev' = ret
    /\ UNCHANGED <<security_config, processed_messages, inp>>

GetClaudeCodeStatus ==
    /\ now < MaxMsgs
    /\ \E id \in DOMAIN sessions : get_claude_code_status(id)
    /\ now' = now + 1
    /\ prev' = ret
    /\ UNCHANGED <<security_config, processed_messages, inp>>

BotSleep == now < MaxMsgs /\ SleepSession /\ UNCHANGED aux

BotAddContext == now < MaxMsgs /\ AddContextFile /\ UNCHANGED aux

\* The bot process starts again: the registry is loaded from disk and the
\* set of seen message ids starts empty.
BotRestart ==
    /\ now < MaxMsgs
    /\ Restart
    /\ processed_messages' = {}
    /\ UNCHANGED <<security_config, inp, out>>

BotTmuxDies == now < MaxMsgs /\ TmuxDies /\ UNCHANGED aux

BotNext ==
    \/ HandleMessage
    \/ StopClaudeCode
    \/ GetClaudeCodeStatus
    \/ BotSleep
    \/ BotAddContext
    \/ BotRestart
    \/ BotTmuxDies

BotSpec == BotInit /\ [][BotNext]_vars

\* ================================================================ claims
Registry == <<sessions, topic_sessions, global_active_session, disk, tmux>>

\* The number an id stands for.
Num(id) == 100 * id[1] + 10 * id[2] + id[3]

\* ---------------------------------------------------------------- C1
C1_Keys ==
    \A i, j \in DOMAIN sessions :
        /\ sessions[i].id = i
        /\ sessions[i].id = sessions[j].id => i = j

C1_Step ==
    /\ (ret'.op = "create" /\ ret'.ok) =>
           (ret'.id \notin DOMAIN sessions /\ ret'.id \in DOMAIN sessions')
    /\ \A i \in DOMAIN sessions \ DOMAIN sessions' :
           ret' = Op("kill", i, NoTopic, TRUE, "")

\* C1: every registered id keys exactly one session (the record stored under
\* a key carries that key as its id, and no two records share an id); an id
\* returned by createSession was not registered when the call began; and a
\* registered id leaves the registry only by a successful kill of it, so an
\* id is handed out again only after such a kill.
C1_UniqueIds == [](C1_Keys) /\ [][C1_Step]_vars

\* An id has been handed out again right after the kill that freed it.
C1_Witness ==
    /\ ret.op = "create" /\ ret.ok
    /\ prev.op = "kill" /\ prev.ok /\ prev.id = ret.id
    /\ ret.id \in DOMAIN sessions

\* ---------------------------------------------------------------- C2
\* C2: when load_sessions has completed after a handle died, every session
\* record on disk has a terminal handle that exists, the one that had died
\* included (tmux new-session may fail).
C2_LoadedHandlesAlive ==
    (ret.op = "restart" /\ prev.op = "tmux-dies") =>
        \A dir \in DOMAIN disk :
            json_load(disk[dir].session_json).tmux_session \in DOMAIN tmux

\* ---------------------------------------------------------------- C3
\* C3: after a successful kill(id) the session directory holds no record for
\* id, and a restart that follows the kill does not register id.
C3_KillRemovesRecord ==
    /\ (ret.op = "kill" /\ ret.ok) => ret.id \notin DOMAIN disk
    /\ (prev.op = "kill" /\ prev.ok /\ ret.op = "restart") =>
           prev.id \notin DOMAIN sessions

\* ---------------------------------------------------------------- C4
\* C4: every value of the topic index is the id of a registered session (so
\* after a successful kill(id) no topic maps to id).
C4_TopicIndexRegistered ==
    \A topic \in DOMAIN topic_sessions : topic_sessions[topic] \in DOMAIN sessions

\* ---------------------------------------------------------------- C5
C5_Step ==
    /\ (ret'.op = "kill" /\ ret'.id \in DOMAIN sessions) =>
           (ret'.ok /\ ret'.err = "" /\ ret'.id \notin DOMAIN sessions')
    /\ (ret.op = "kill" /\ ret.ok /\ ret'.op = "kill" /\ ret'.id = ret.id) =>
           /\ ~ret'.ok
           /\ ret'.err = ""
           /\ Registry' = Registry
           /\ FreeNumbers(sessions') = FreeNumbers(sessions)

\* C5: kill of a registered session returns success without raising (whether
\* or not its handle is alive); a second kill of the same id right after it
\* returns failure without raising and leaves the registry, the topic index,
\* the disk, the handles and the set of free ids as they were.
C5_KillIdempotent == [][C5_Step]_vars

\* kill(id) succeeded and kill(id) was called again.
C5_Witness ==
    /\ prev.op = "kill" /\ prev.ok
    /\ ret.op = "kill" /\ ret.id = prev.id /\ ~ret.ok

\* ---------------------------------------------------------------- C6
\* C6: after switchTopic(t, A) and then switchTopic(t, B) on registered
\* sessions, getByTopic(t) is B, the topic index maps t to B alone and the
\* global active session is B.
C6_LastSwitchWins ==
    (/\ prev.op = "switch" /\ prev.ok
     /\ ret.op = "switch" /\ ret.ok
     /\ ret.topic = prev.topic) =>
        /\ get_current_session(sessions, topic_sessions,
                               global_active_session, ret.topic) = ret.id
        /\ topic_sessions[ret.topic] = ret.id
        /\ global_active_session = ret.id

\* t was switched to A and then to another session B.
C6_Witness ==
    /\ prev.op = "switch" /\ prev.ok
    /\ ret.op = "switch" /\ ret.ok
    /\ ret.topic = prev.topic
    /\ ret.id # prev.id
    /\ {ret.id, prev.id} \subseteq DOMAIN sessions

\* ---------------------------------------------------------------- C7
\* C7: for every registered session, save_session followed by a load of the
\* registry from that disk (in any directory order) gives a session equal
\* to the one in memory, with the same fields.
C7_RoundTrip ==
    \A id \in DOMAIN sessions :
        LET d == save_session(sessions, disk, id)
        IN  \A order \in Orders(DOMAIN d) :
                LET loaded == load_sessions(d, tmux, order, {}).sessions
                IN  /\ id \in DOMAIN loaded
                    /\ DOMAIN loaded[id] = DOMAIN sessions[id]
                    /\ loaded[id] = sessions[id]

\* A session without topic was put to sleep, saved, and read back by a restart.
C7_Witness ==
    /\ prev.op = "sleep" /\ prev.ok
    /\ ret.op = "restart"
    /\ prev.id \in DOMAIN sessions
    /\ sessions[prev.id].topic = NoTopic
    /\ sessions[prev.id].status = "sleeping"

\* ---------------------------------------------------------------- C8
\* C8: when tmux new-session fails inside createSession, the directory of the
\* id it chose does not exist afterwards, nothing is registered or mapped for
\* the id, the error raised is the "Failed to create tmux session" one, and a
\* restart that follows does not register the id.
C8_CreateRollsBack ==
    /\ (ret.op = "create" /\ ~ret.ok /\ ret.id # NoId) =>
           /\ ret.id \notin DOMAIN disk
           /\ ret.id \notin DOMAIN sessions
           /\ \A topic \in DOMAIN topic_sessions : topic_sessions[topic] # ret.id
           /\ ret.err = "Failed to create tmux session"
    /\ (prev.op = "create" /\ ~prev.ok /\ prev.id # NoId /\ ret.op = "restart") =>
           prev.id \notin DOMAIN sessions

\* ---------------------------------------------------------------- C9
C9_Step ==
    ret'.op = "create" =>
        IF \E n \in 1..MaxId : Pad3(n) \notin DOMAIN sessions
        THEN /\ Len(ret'.id) = 3
             /\ \A k \in 1..3 : ret'.id[k] \in 0..9
             /\ Num(ret'.id) \in 1..MaxId
             /\ ret'.id \notin DOMAIN sessions
             /\ \A n \in 1..MaxId :
                    Pad3(n) \notin DOMAIN sessions => Num(ret'.id) <= n
        ELSE /\ ~ret'.ok
             /\ ret'.id = NoId
             /\ Registry' = Registry

\* C9: createSession picks the smallest number of the id range that is not
\* the id of a registered session, written with three digits; when every id
\* of the range is registered it fails and leaves registry, topic index,
\* disk and handles untouched.
C9_SmallestFreeId == [][C9_Step]_vars

\* createSession was called with every id of the range registered.
C9_Witness ==
    /\ ret.op = "create" /\ ~ret.ok
    /\ ret.err = "Too many sessions"
    /\ DOMAIN sessions = Ids

\* --------------------------------------------------------------- C10
\* C10: getByTopic(t) returns the session the topic index maps t to when
\* that id is registered; otherwise the global active session when it is set
\* and registered; otherwise nothing.
C10_GetByTopic ==
    ret.op = "get" =>
        LET t == ret.topic
        IN  IF t \in DOMAIN topic_sessions /\ topic_sessions[t] \in DOMAIN sessions
            THEN ret.id = topic_sessions[t]
            ELSE IF global_active_session \in DOMAIN sessions
                 THEN ret.id = global_active_session
                 ELSE ret.id = NoId /\ ~ret.ok

\* getByTopic fell back to the global active session while another topic
\* is mapped to a different session.
C10_Witness ==
    /\ ret.op = "get"
    /\ ret.topic \notin DOMAIN topic_sessions
    /\ ret.id # NoId
    /\ ret.id = global_active_session
    /\ \E topic \in DOMAIN topic_sessions : topic_sessions[topic] # ret.id

\* --------------------------------------------------------------- C11
C11_Step ==
    ret'.op = "setwd" =>
        /\ ret'.ok <=> (ret'.id \in DOMAIN sessions /\ ret'.path \in ExistingPaths)
        /\ ~ret'.ok => Registry' = Registry
        /\ ret'.ok => sessions'[ret'.id].working_dir = ret'.path

\* C11: setWorkingDirectory(id, path) fails exactly when id is not registered
\* or path does not exist, and a failing call leaves the in-memory records,
\* the records on disk and the handles (their keys included) as they were;
\* a successful call stores the path.
C11_SetwdValidates == [][C11_Step]_vars

\* setWorkingDirectory was refused for a registered session because the path
\* does not exist.
C11_Witness ==
    /\ ret.op = "setwd" /\ ~ret.ok
    /\ ret.id \in DOMAIN sessions
    /\ ret.path \notin ExistingPaths

\* --------------------------------------------------------------- C12
\* C12: when the capture is the prompt line ending in the typed command
\* "echo hi", the line "hi", and the next prompt line, the reply is exactly
\* "hi".
C12_EchoExample ==
    (/\ out # None
     /\ inp.command = EchoHi
     /\ inp.captured = <<PromptText \o <<" ">> \o EchoHi, Hi, PromptText>>)
        => out = [kind |-> "text", lines |-> <<Hi>>]

\* --------------------------------------------------------------- C13
\* C13: a reply built from more than 15 lines is its first 10 lines, one
\* marker line and its last 3 lines, 14 lines in all; a reply built from 15
\* lines or fewer has exactly those lines.
C13_Truncated ==
    out # None =>
        LET cand == ShellCandidate(inp.command, inp.captured)
            n == Len(cand)
        IN  /\ n > 15 =>
                /\ out.kind = "text"
                /\ Len(out.lines) = 14
                /\ \A i \in 1..10 : out.lines[i] = cand[i]
                /\ out.lines[11] = TruncationMarker
                /\ \A i \in 1..3 : out.lines[11 + i] = cand[n - 3 + i]
            /\ (n <= 15 /\ n > 0) => (out.kind = "text" /\ out.lines = cand)

C13_Witness ==
    /\ out # None
    /\ Len(ShellCandidate(inp.command, inp.captured)) > 15
    /\ out.kind = "text"
    /\ Len(out.lines) = 14

\* --------------------------------------------------------------- C14
Blocked == ConfigGet(security_config, "blocked_commands")
Allowed == ConfigGet(security_config, "allowed_commands")
HasBlocked == \E b \in Blocked : Contains(inp.command, b)
Answered == out # None /\ "allowed" \in DOMAIN out

\* C14 as stated: with a block list configured the command is rejected
\* exactly when a blocked string occurs in it and the allow list is not
\* consulted; otherwise with an allow list configured it is accepted exactly
\* when its first word is on the list; with neither list it is accepted.
C14_ThreeBranches ==
    Answered =>
        out.allowed = (IF Blocked # {} THEN ~HasBlocked
                       ELSE IF Allowed # {} THEN cmd_start(inp.command) \in Allowed
                       ELSE TRUE)

\* C14 amended: the command is rejected when a blocked string occurs in it;
\* otherwise, with an allow list configured (with or without a block list),
\* it is accepted exactly when its first word is on the allow list;
\* otherwise it is accepted.
C14_BlockThenAllow ==
    Answered =>
        out.allowed = (IF HasBlocked THEN FALSE
                       ELSE IF Allowed # {} THEN cmd_start(inp.command) \in Allowed
                       ELSE TRUE)

C14_Witness ==
    /\ Answered
    /\ Blocked # {}
    /\ Allowed # {}
    /\ ~HasBlocked
    /\ cmd_start(inp.command) \notin Allowed
    /\ ~out.allowed

\* --------------------------------------------------------------- C15
\* C15: a command containing a blocked string is rejected even when its
\* first word is on the allow list; with an empty security section every
\* command, the empty one included, is accepted.
C15_BlockWins ==
    Answered =>
        /\ HasBlocked => ~out.allowed
        /\ DOMAIN security_config = {} => out.allowed

C15_Witness ==
    /\ Answered
    /\ HasBlocked
    /\ cmd_start(inp.command) \in Allowed
    /\ ~out.allowed

\* --------------------------------------------------------------- C16
\* A step in which handle_message took a new event of a user.
Handled ==
    /\ inp' # None
    /\ inp'.id \notin processed_messages
    /\ inp'.id \in processed_messages'
    /\ "content" \in DOMAIN inp'
    /\ "sender_email" \in DOMAIN inp'
    /\ inp'.sender_email = UserEmail

\* The send-keys calls a step added to the handle name.
NewKeys(name) ==
    IF name \in DOMAIN tmux /\ name \in DOMAIN tmux'
       /\ Len(tmux'[name].keys) >= Len(tmux[name].keys)
    THEN {tmux'[name].keys[i] : i \in (Len(tmux[name].keys) + 1)..Len(tmux'[name].keys)}
    ELSE {}

\* C16: every text of the user typed into a handle as a shell command, raw
\* input and the "cd <path>" of /working-dir alike, has passed
\* is_command_allowed; for a rejected raw input no key is sent and the reply
\* is the blocked-command text.
C16_Step ==
    Handled =>
        /\ \A name \in DOMAIN tmux' : \A k \in NewKeys(name) :
               (/\ Len(k) = 2
                /\ \/ ret'.op = "execute" /\ k[1] = Clean(inp'.content)
                   \/ ret'.op = "setwd" /\ k[1] = CdCommand(ret'.path))
                   => is_command_allowed(security_config, k[1])
        /\ (ret'.op = "execute" /\ ~is_command_allowed(security_config, Clean(inp'.content)))
               => (tmux' = tmux /\ out'.result.kind = "blocked")

C16_GateBeforeKeys == [][C16_Step]_vars

\* --------------------------------------------------------------- C17
CreateCalled == <<"c", "r", "e", "a", "t", "e", " ", "s", "e", "s", "s", "i", "o", "n", " ", "c", "a", "l", "l", "e", "d", " ">>

\* C17: "create session called <name>" is rewritten to
\* /new-session "<name>" and create_session is called for the topic of the
\* message, with that name.
C17_Step ==
    \A name \in {Demo, <<"D", "e", "m", "o">>} :
        (Handled /\ Clean(inp'.content) = CreateCalled \o name) =>
            /\ convert_natural_command(Clean(inp'.content))
                   = SlashNewSession \o <<" ", "\"">> \o name \o <<"\"">>
            /\ ret'.op = "create"
            /\ ret'.topic = TopicOf(inp')
            /\ ret'.ok => sessions'[ret'.id].name = <<"\"">> \o name \o <<"\"">>

C17_CreateCalled == [][C17_Step]_vars

\* --------------------------------------------------------------- C18
CdTmp == <<"c", "d", " ", "/", "t", "m", "p">>

\* C18: "cd /tmp" sent to a topic with a current session becomes
\* /working-dir /tmp and reaches set_working_directory; it is not typed
\* into the session as raw input.
C18_Step ==
    (/\ Handled
     /\ Clean(inp'.content) = CdTmp
     /\ get_current_session(sessions, topic_sessions, global_active_session,
                            TopicOf(inp')) # NoId)
        => /\ ret'.op = "setwd"
           /\ ret'.path = <<"/", "t", "m", "p">>
           /\ \A name \in DOMAIN tmux' : <<CdTmp, "Enter">> \notin NewKeys(name)

C18_CdIsWorkingDir == [][C18_Step]_vars

\* --------------------------------------------------------------- C19
CommandTokens ==
    {Tail(SlashNewSession), Tail(SlashListSessions), Tail(SlashSwitchSession),
     Tail(SlashWorkingDir), Tail(SlashClaudeStart), Tail(SlashClaudeStop),
     <<"c", "l", "a", "u", "d", "e", "-", "s", "t", "a", "t", "u", "s">>, Tail(SlashHelp)}

\* C19: a message "/<token> ..." with one of the eight tokens never gets the
\* unknown-command reply, any other token gets the unknown-command reply
\* naming it, and /claude-stop for a session whose assistant is active
\* leaves it inactive.
C19_Step ==
    (Handled /\ StartsWith(Clean(inp'.content), <<"/">>)) =>
        LET parts == Split(Tail(Clean(inp'.content)))
            cmd == IF parts # <<>> THEN parts[1] ELSE <<>>
            id == get_current_session(sessions, topic_sessions,
                                      global_active_session, TopicOf(inp'))
        IN  /\ cmd \in CommandTokens => out'.kind # "Unknown command"
            /\ cmd \notin CommandTokens => out' = [kind |-> "Unknown command", cmd |-> cmd]
            /\ (/\ cmd = Tail(SlashClaudeStop)
                /\ id # NoId
                /\ sessions[id].claude_code_active
                /\ Alive(tmux, id))
                   => ~sessions'[id].claude_code_active

C19_EightTokens == [][C19_Step]_vars

\* --------------------------------------------------------------- C20
\* C20: create_session registers a session with claude_code_active false;
\* afterwards the flag of a session changes only from false to true in
\* start_claude_code, from true to false in stop_claude_code, and from true
\* to false in get_claude_code_status when the handle is dead; every other
\* step, a restart over the saved records included, leaves it as it was.
C20_Step ==
    \A id \in DOMAIN sessions' :
        /\ (id \notin DOMAIN sessions /\ ret'.op = "create")
               => ~sessions'[id].claude_code_active
        /\ (/\ id \in DOMAIN sessions
            /\ sessions'[id].claude_code_active # sessions[id].claude_code_active)
               => /\ ret'.id = id
                  /\ \/ ret'.op = "claude-start" /\ sessions'[id].claude_code_active
                     \/ ret'.op = "claude-stop" /\ ~sessions'[id].claude_code_active
                     \/ /\ ret'.op = "claude-status"
                        /\ ~sessions'[id].claude_code_active
                        /\ ~Alive(tmux, id)

C20_FlagTransitions == [][C20_Step]_vars

\* --------------------------------------------------------------- C21
\* The send-keys calls a step added to the handle of session id, in order.
KeysAdded(id) ==
    LET name == sessions[id].tmux_session
    IN  IF name \in DOMAIN tmux /\ name \in DOMAIN tmux'
        THEN SubSeq(tmux'[name].keys, Len(tmux[name].keys) + 1, Len(tmux'[name].keys))
        ELSE <<>>

\* A step in which handle_message took raw input for a topic that has a
\* current session.
RawInput ==
    /\ Handled
    /\ Route(Clean(inp'.content)) = "terminal"
    /\ get_current_session(sessions, topic_sessions, global_active_session,
                           TopicOf(inp')) # NoId

\* C21 as stated: raw input for the current session of the topic takes the
\* assistant path exactly when claude_code_active is true at that moment and
\* the shell path otherwise.
C21_AllRawStep ==
    RawInput =>
        LET id == get_current_session(sessions, topic_sessions,
                                      global_active_session, TopicOf(inp'))
        IN  /\ ret'.op = "execute"
            /\ sessions[id].claude_code_active => ret'.err = "claude"
            /\ ~sessions[id].claude_code_active => ret'.err = "shell"

C21_GatedStep ==
    RawInput =>
        LET id == get_current_session(sessions, topic_sessions,
                                      global_active_session, TopicOf(inp'))
            command == Clean(inp'.content)
            active == sessions[id].claude_code_active
        IN  /\ ret'.op = "execute" /\ ret'.id = id
            /\ IF is_command_allowed(security_config, command)
               THEN /\ ret'.err = (IF active THEN "claude" ELSE "shell")
                    /\ ret'.ok =>
                           KeysAdded(id) = IF active
                                           THEN << <<command, "Enter">> >>
                                           ELSE <<CtrlC, <<command, "Enter">> >>
                    /\ (ret.op = "claude-start" /\ ret.ok /\ ret.id = id)
                           => ret'.err = "claude"
               ELSE ret'.err = "blocked" /\ tmux' = tmux

MessageOps ==
    {"create", "switch", "claude-start", "setwd", "reply", "execute", "raised",
     "own message", "duplicate"}

\* A step in which handle_message was called with an event.
Delivered == ret'.op \in MessageOps

\* C22: in one run of the bot (the Zulip client registers a new event queue
\* when the bot starts, and the set of seen ids starts empty with it) every
\* event id is dispatched at most once and answered at most once: a delivery
\* of an id seen before changes nothing in the registry, on disk or in any
\* tmux handle and sends no reply; a delivery that can dispatch is of an id
\* not seen before, which is seen from then on; and no other operation of
\* the running bot forgets an id.
C22_Step ==
    /\ Delivered =>
           /\ inp' # None
           /\ IF inp'.id \in processed_messages
              THEN /\ Registry' = Registry
                   /\ out' = None
                   /\ processed_messages' = processed_messages
              ELSE processed_messages' = processed_messages \cup {inp'.id}
    /\ (~Delivered /\ ret'.op # "restart") =>
           processed_messages' = processed_messages

C22_Deduplication == [][C22_Step]_vars

\* /new-session created a session and the same event was delivered again.
C22_Witness ==
    /\ prev.op = "create" /\ prev.ok
    /\ ret.op = "duplicate"
    /\ inp # None /\ inp.id \in processed_messages
    /\ inp.content = SlashNewSession
    /\ out = None

\* ------------------------------------------------------------------- C23
\* C23: an event whose sender is the bot's own address is not dispatched,
\* whatever its content (a command or raw input): handling it changes
\* nothing in the registry, on disk or in any tmux handle, and no reply is
\* sent.
C23_Step ==
    (/\ Delivered
     /\ inp' # None
     /\ "sender_email" \in DOMAIN inp'
     /\ inp'.sender_email = BotEmail)
        => /\ Registry' = Registry
           /\ out' = None
           /\ ret'.op \in {"own message", "duplicate"}

C23_OwnSenderIgnored == [][C23_Step]_vars

\* The bot's own /new-session, seen for the first time, with a session
\* registry that a dispatch would have changed.
C23_Witness ==
    /\ ret.op = "own message"
    /\ inp # None /\ inp.sender_email = BotEmail
    /\ inp.content = SlashNewSession
    /\ ret.topic \notin DOMAIN topic_sessions
    /\ out = None

\* ------------------------------------------------------------------- C25
\* The operations C25 names, by the result they leave.
MutatingOps ==
    {"create", "switch", "setwd", "sleep", "addctx", "claude-start",
     "claude-stop", "claude-status"}

\* C25 as stated: when a mutating operation on a session (create, switch,
\* set working directory, sleep, add context file, claude-start,
\* claude-stop, death detection) has completed, the session.json of that
\* session on disk, read back, equals the session's record in memory field
\* for field.
C25_DurableEqualsMemory ==
    (/\ ret.op \in MutatingOps
     /\ ret.id \in DOMAIN sessions
     /\ ret.id \in DOMAIN disk)
        => json_load(disk[ret.id].session_json) = sessions[ret.id]

\* ------------------------------------------------------------------- C27
\* C27 as stated: every routing decision that touches a session moves its
\* last_active forward: a raw input executed in it, a claude-start, a
\* working-dir and a switch-session that resolve to it.
C27_Step ==
    (/\ Handled
     /\ ret'.op \in {"execute", "claude-start", "setwd", "switch"}
     /\ ret'.ok
     /\ ret'.id \in DOMAIN sessions
     /\ ret'.id \in DOMAIN sessions')
        => sessions'[ret'.id].last_active > sessions[ret'.id].last_active

C27_LastActiveMoves == [][C27_Step]_vars

\* ------------------------------------------------------------------- C28
\* C28 as stated: handle_message returns normally for every event, one
\* that lacks an expected field included: whatever fails while the event is
\* handled ends as a reply or as nothing, never as an exception that leaves
\* handle_message.
C28_Step == Delivered => (ret'.op # "raised" /\ out' # [kind |-> "raised", exc |-> ret'.err])

C28_NeverRaises == [][C28_Step]_vars

\* ------------------------------------------------------------------- C30
\* The stripped lines of a capture.
StrippedLines(captured) ==
    LET lines == StripSplit(captured) IN [i \in 1..Len(lines) |-> Strip(lines[i])]

NonBlank(line) == line # <<>>

\* C30 as stated: when a line of the capture equals the command, the
\* candidate reply of shell mode is the non-blank lines after the first such
\* line, in order, later lines equal to the command included, and nothing
\* else.
C30_AfterAnchor ==
    out # None =>
        LET lines == StrippedLines(inp.captured)
            anchors == {i \in 1..Len(lines) : lines[i] = inp.command}
        IN  anchors # {} =>
                LET first == CHOOSE i \in anchors : \A j \in anchors : i <= j
                IN  ShellCandidate(inp.command, inp.captured)
                        = SelectSeq(SubSeq(lines, first + 1, Len(lines)), NonBlank)

\* ------------------------------------------------------------------- C24
\* Two callers of execute_command share the tmux server: the chat handler
\* (handle_terminal_input) and the HTTP front-end (send_command).  Each call
\* of execute_command on the shell path is three tmux commands with sleeps
\* between them: send-keys C-c, send-keys <command> Enter, capture-pane.
\* inp holds, for each caller, where its call stands; out the last capture.
MaxCalls == 3

FlightCallers == {"chat", "http"}
FlightTopics == {"t1", "t2"}
FlightCommands == {EchoHi, <<"l", "s">>}

Idle == [pc |-> "idle", id |-> NoId, command |-> <<>>]

\* Sessions 001 of topic t1 and 002 of topic t2 as an earlier run saved them.
FlightDirs ==
    Put(Put(<<>>, Pad3(1),
            [session_json |-> json_dump(new_session_data(Pad3(1), Demo, "t1", -1)),
             context |-> {}]),
        Pad3(2),
        [session_json |-> json_dump(new_session_data(Pad3(2), Demo, "t2", -1)),
         context |-> {}])

\* The registry a started process loaded from these directories; nothing
\* was handled yet.
FlightLoaded ==
    /\ disk = FlightDirs
    /\ LET st == load_sessions(FlightDirs, <<>>, <<Pad3(1), Pad3(2)>>, {})
       IN  /\ sessions = st.sessions
           /\ topic_sessions = st.topic_sessions
           /\ global_active_session = st.global_active_session
           /\ tmux = st.tmux
    /\ now = 0
    /\ ret = NoOp
    /\ prev = NoOp
    /\ security_config = <<>>
    /\ processed_messages = {}
    /\ out = None

FlightInit == FlightLoaded /\ inp = [c \in FlightCallers |-> Idle]

\* execute_command is entered by caller for session id.
Enter(caller, id, command) ==
    /\ now < MaxCalls
    /\ inp[caller].pc = "idle"
    /\ is_command_allowed(security_config, command)
    /\ ~sessions[id].claude_code_active
    /\ inp' = [inp EXCEPT ![caller] = [pc |-> "entered", id |-> id, command |-> command]]
    /\ now' = now + 1
    /\ UNCHANGED <<sessions, topic_sessions, global_active_session, disk, tmux, ret,
                   prev, security_config, processed_messages, out>>

\* The chat handler resolves the session of the topic and calls
\* execute_command.
ChatTerminalInput ==
    \E topic \in FlightTopics, command \in FlightCommands :
        LET current == get_current_session(sessions, topic_sessions,
                                           global_active_session, topic)
        IN  current # NoId /\ Enter("chat", current, command)

\* POST /api/sessions/<session_id>/command
HttpSendCommand ==
    \E session_id \in DOMAIN sessions, command \in FlightCommands :
        Enter("http", session_id, command)

\* tmux send-keys -t <name> C-c
ClearPendingInput ==
    \E caller \in FlightCallers :
        /\ inp[caller].pc = "entered"
        /\ tmux' = send_keys(tmux, sessions[inp[caller].id].tmux_session, CtrlC)
        /\ inp' = [inp EXCEPT ![caller].pc = "cleared"]
        /\ UNCHANGED <<sessions, topic_sessions, global_active_session, disk, now, ret,
                       prev, security_config, processed_messages, out>>

\* tmux send-keys -t <name> <command> Enter
TypeCommand ==
    \E caller \in FlightCallers :
        /\ inp[caller].pc = "cleared"
        /\ tmux' = send_keys(tmux, sessions[inp[caller].id].tmux_session,
                             <<inp[caller].command, "Enter">>)
        /\ inp' = [inp EXCEPT ![caller].pc = "typed"]
        /\ UNCHANGED <<sessions, topic_sessions, global_active_session, disk, now, ret,
                       prev, security_config, processed_messages, out>>

\* tmux capture-pane -t <name> -S -10 -p, after which execute_command
\* returns.
CapturePane ==
    \E caller \in FlightCallers :
        /\ inp[caller].pc = "typed"
        /\ out' = [caller |-> caller, id |-> inp[caller].id,
                   keys |-> tmux[sessions[inp[caller].id].tmux_session].keys]
        /\ inp' = [inp EXCEPT ![caller] = Idle]
        /\ UNCHANGED <<sessions, topic_sessions, global_active_session, disk, tmux, now,
                       ret, prev, security_config, processed_messages>>

FlightNext ==
    \/ ChatTerminalInput
    \/ HttpSendCommand
    \/ ClearPendingInput
    \/ TypeCommand
    \/ CapturePane

FlightSpec == FlightInit /\ [][FlightNext]_vars

\* A caller whose command keys were sent and whose capture has not
\* completed.
InFlight(caller) == inp[caller].pc = "typed"

\* The step sends keys of caller's command to its session's handle.
SendsKeys(caller) ==
    /\ inp[caller].pc \in {"entered", "cleared"}
    /\ inp'[caller].pc # inp[caller].pc

\* C24 as stated: at most one command is in flight per session: while the
\* keys of one caller's command were sent to a session's handle and its
\* capture has not completed, the other caller (chat handler or HTTP
\* front-end) sends no keys to the same handle; calls for different
\* sessions may overlap.
C24_Step ==
    \A c, d \in FlightCallers :
        (c # d /\ InFlight(d) /\ SendsKeys(c)) => inp[c].id # inp[d].id

C24_OneInFlight == [][C24_Step]_vars

\* ------------------------------------------------------------------- C26
\* ContextManager works on the session directories of the same base_dir as
\* SessionManager: it reads session.json, changes context_files and
\* last_active and writes the file back; the registry in memory is not
\* told.
\* list.remove(x): the first occurrence of x is taken out.
RemoveFirst(s, x) ==
    LET i == CHOOSE k \in DOMAIN s : s[k] = x /\ \A j \in 1..(k - 1) : s[j] # x
    IN  SubSeq(s, 1, i - 1) \o SubSeq(s, i + 1, Len(s))

\* session.json of directory id after update_context_list(id, filename)
update_context_list(d, id, filename, t) ==
    LET session_data == json_load(d[id].session_json)
    IN  IF ~InSeq(filename, session_data.context_files)
        THEN json_dump([session_data EXCEPT !.context_files = Append(@, filename),
                                            !.last_active = t])
        ELSE json_dump(session_data)

remove_from_context_list(d, id, filename, t) ==
    LET session_data == json_load(d[id].session_json)
    IN  IF InSeq(filename, session_data.context_files)
        THEN json_dump([session_data EXCEPT !.context_files = RemoveFirst(@, filename),
                                            !.last_active = t])
        ELSE json_dump(session_data)

clear_context_list(d, id, t) ==
    LET session_data == json_load(d[id].session_json)
    IN  json_dump([session_data EXCEPT !.context_files = <<>>, !.last_active = t])

\* upload_file: available says whether content was given or the source
\* file exists.
upload_file(id, filename, available) ==
    /\ IF available
       THEN /\ disk' = [disk EXCEPT
                           ![id].context = @ \cup {filename},
                           ![id].session_json =
                               update_context_list(disk, id, filename, now)]
            /\ out' = [kind |-> "File uploaded", filename |-> filename]
            /\ ret' = Op("upload", id, NoTopic, TRUE, "")
       ELSE /\ out' = [kind |-> "Upload failed", filename |-> filename]
            /\ ret' = Op("upload", id, NoTopic, FALSE, "FileNotFoundError")
            /\ UNCHANGED disk
    /\ UNCHANGED <<sessions, topic_sessions, global_active_session, tmux>>

delete_context_file(id, filename) ==
    /\ IF filename \notin disk[id].context
       THEN /\ out' = [kind |-> "returned", value |-> FALSE]
            /\ ret' = Op("delete", id, NoTopic, FALSE, "")
            /\ UNCHANGED disk
       ELSE /\ disk' = [disk EXCEPT
                           ![id].context = @ \ {filename},
                           ![id].session_json =
                               remove_from_context_list(disk, id, filename, now)]
            /\ out' = [kind |-> "returned", value |-> TRUE]
            /\ ret' = Op("delete", id, NoTopic, TRUE, "")
    /\ UNCHANGED <<sessions, topic_sessions, global_active_session, tmux>>

clear_context(id) ==
    /\ disk' = [disk EXCEPT ![id].context = {},
                             ![id].session_json = clear_context_list(disk, id, now)]
    /\ out' = [kind |-> "returned", value |-> TRUE]
    /\ ret' = Op("clear", id, NoTopic, TRUE, "")
    /\ UNCHANGED <<sessions, topic_sessions, global_active_session, tmux>>

\* The bot starts over the directories of sessions 001 and 002, both with
\* an empty context directory and an empty context_files list.
ContextInit == FlightLoaded /\ inp = None

UploadFile ==
    /\ now < MaxOps
    /\ \E id \in DOMAIN disk, filename \in Files, available \in BOOLEAN :
           upload_file(id, filename, available)
    /\ now' = now + 1
    /\ prev' = ret
    /\ UNCHANGED <<security_config, processed_messages, inp>>

DeleteContextFile ==
    /\ now < MaxOps
    /\ \E id \in DOMAIN disk, filename \in Files : delete_context_file(id, filename)
    /\ now' = now + 1
    /\ prev' = ret
    /\ UNCHANGED <<security_config, processed_messages, inp>>

ClearContext ==
    /\ now < MaxOps
    /\ \E id \in DOMAIN disk : clear_context(id)
    /\ now' = now + 1
    /\ prev' = ret
    /\ UNCHANGED <<security_config, processed_messages, inp>>

ContextSwitch == SwitchSession /\ UNCHANGED aux

ContextSetwd == SetWorkingDirectory /\ UNCHANGED aux

ContextSleep == SleepSession /\ UNCHANGED aux

ContextAdd == AddContextFile /\ UNCHANGED aux

ContextNext ==
    \/ UploadFile
    \/ DeleteContextFile
    \/ ClearContext
    \/ ContextSwitch
    \/ ContextSetwd
    \/ ContextSleep
    \/ ContextAdd

ContextSpec == ContextInit /\ [][ContextNext]_vars

\* context_files in the session.json of directory id.
DurableList(id) == json_load(disk[id].session_json).context_files

\* C26 as stated: after any sequence of context uploads, deletes and
\* clears interleaved with switch, set working directory, sleep and add
\* context file on the same session, the context_files list in the
\* session's session.json holds exactly the files present in the session's
\* context directory, each once.
C26_ListMatchesDirectory ==
    \A id \in DOMAIN disk :
        /\ {DurableList(id)[i] : i \in DOMAIN DurableList(id)} = disk[id].context
        /\ Len(DurableList(id)) = Cardinality(disk[id].context)

\* ------------------------------------------------------------------- C29
\* save_session opens session.json for writing without a try block
\* (session_manager.py:253): when the open fails (the directory was removed,
\* the permission was taken away) OSError goes up through the operation that
\* called it, after that operation changed the record in memory.  The file
\* is as it was.  inp says whether the write of the step is allowed to
\* succeed.
Raised(op, id, topic) == Op(op, id, topic, FALSE, "OSError")

switch_session_write_fails(id, topic) ==
    IF id \notin DOMAIN sessions
    THEN switch_session(id, topic)
    ELSE /\ topic_sessions' = Put(topic_sessions, topic, id)
         /\ global_active_session' = id
         /\ sessions' = [sessions EXCEPT ![id].last_active = now]
         /\ ret' = Raised("switch", id, topic)
         /\ UNCHANGED <<disk, tmux>>

sleep_session_write_fails(id) ==
    IF id \notin DOMAIN sessions
    THEN sleep_session(id)
    ELSE /\ sessions' = Put(sessions, id, Put(sessions[id], "status", "sleeping"))
         /\ ret' = Raised("sleep", id, NoTopic)
         /\ UNCHANGED <<topic_sessions, global_active_session, disk, tmux>>

set_working_directory_write_fails(id, working_dir) ==
    IF id \notin DOMAIN sessions \/ working_dir \notin ExistingPaths
    THEN set_working_directory(id, working_dir)
    ELSE /\ sessions' = [sessions EXCEPT ![id].working_dir = working_dir]
         /\ tmux' = send_keys(tmux, sessions[id].tmux_session,
                              <<CdCommand(working_dir), "Enter">>)
         /\ ret' = [path |-> working_dir] @@ Raised("setwd", id, NoTopic)
         /\ UNCHANGED <<topic_sessions, global_active_session, disk>>

add_context_file_write_fails(id, filename) ==
    IF id \notin DOMAIN sessions \/ InSeq(filename, sessions[id].context_files)
    THEN add_context_file(id, filename)
    ELSE /\ sessions' = [sessions EXCEPT ![id].context_files = Append(@, filename)]
         /\ ret' = Raised("addctx", id, NoTopic)
         /\ UNCHANGED <<topic_sessions, global_active_session, disk, tmux>>

\* One operation of the registry with the write allowed or not.
Written(write_ok) ==
    /\ now < MaxOps
    /\ inp' = [write_ok |-> write_ok]
    /\ now' = now + 1
    /\ prev' = ret
    /\ UNCHANGED <<security_config, processed_messages, out>>

FaultInit == FlightLoaded /\ inp = [write_ok |-> TRUE]

FaultSwitch ==
    \E id \in Ids, topic \in Topics, write_ok \in BOOLEAN :
        /\ Written(write_ok)
        /\ IF write_ok THEN switch_session(id, topic)
                       ELSE switch_session_write_fails(id, topic)

FaultSleep ==
    \E id \in Ids, write_ok \in BOOLEAN :
        /\ Written(write_ok)
        /\ IF write_ok THEN sleep_session(id) ELSE sleep_session_write_fails(id)

FaultSetwd ==
    \E id \in Ids, working_dir \in Paths, write_ok \in BOOLEAN :
        /\ Written(write_ok)
        /\ IF write_ok THEN set_working_directory(id, working_dir)
                       ELSE set_working_directory_write_fails(id, working_dir)

FaultAdd ==
    \E id \in Ids, filename \in Files, write_ok \in BOOLEAN :
        /\ Written(write_ok)
        /\ IF write_ok THEN add_context_file(id, filename)
                       ELSE add_context_file_write_fails(id, filename)

FaultNext == FaultSwitch \/ FaultSleep \/ FaultSetwd \/ FaultAdd

FaultSpec == FaultInit /\ [][FaultNext]_vars

\* The step's operation reached save_session and the write failed.
WriteFailed == ~inp'.write_ok /\ disk' = disk /\ sessions' # sessions

\* What the step's operation was to change is changed in memory.
InEffect ==
    LET id == ret'.id
    IN  CASE ret'.op = "switch" ->
                 /\ TopicGet(topic_sessions', ret'.topic) = id
                 /\ global_active_session' = id
          [] ret'.op = "sleep" ->
                 "status" \in DOMAIN sessions'[id] /\ sessions'[id].status = "sleeping"
          [] ret'.op = "setwd" -> sessions'[id].working_dir = ret'.path
          [] OTHER -> sessions'[id].context_files # <<>>

\* C29 as stated: when the write of session.json fails during switch, set
\* working directory, sleep or add context file, the operation does not
\* raise, and what it reports matches memory: success only if the change is
\* in effect, failure only if the registry and the topic index are as they
\* were.
C29_Step ==
    WriteFailed =>
        /\ ret'.err # "OSError"
        /\ ret'.ok => InEffect
        /\ ~ret'.ok => (sessions' = sessions /\ topic_sessions' = topic_sessions)

C29_WriteFailureReported == [][C29_Step]_vars

\* ------------------------------------------------------------------- C31
\* A pane is captured after a message was typed to Claude Code;
\* send_to_claude_code turns the capture into the reply.  inp holds the
\* message and the captured lines, out the reply.
ClaudeMessages == {Hi, EchoHi}

\* A line the pane can show around a message: the message as typed, a line
\* of the answer, an answer line that quotes the message in capitals, a
\* shell prompt, a line of the input box, a blank line.
ClaudeLines(message) ==
    { message,
      <<"o", "k">>,
      <<"Y", "O", "U", ":", " ", "H", "I">>,
      PromptText,
      <<BoxBorder, " ", ">">>,
      <<" ">> }

ClaudeInit ==
    /\ sessions = <<>>
    /\ topic_sessions = <<>>
    /\ global_active_session = NoId
    /\ disk = <<>>
    /\ tmux = <<>>
    /\ now = 0
    /\ ret = NoOp
    /\ prev = NoOp
    /\ security_config = <<>>
    /\ processed_messages = {}
    /\ \E message \in ClaudeMessages : inp = [message |-> message, captured |-> <<>>]
    /\ out = None

\* The pane shows one more line.
ClaudeShow ==
    /\ out = None
    /\ Len(inp.captured) < MaxScreen
    /\ \E line \in ClaudeLines(inp.message) :
           inp' = [inp EXCEPT !.captured = Append(@, line)]
    /\ UNCHANGED <<out, sessions, topic_sessions, global_active_session, disk, tmux,
                   now, ret, prev, security_config, processed_messages>>

\* The answer is a long listing: as many lines as the fallback keeps and
\* one more, or as many as it looks at and one more.
ClaudeListing ==
    /\ out = None
    /\ Len(inp.captured) <= MaxScreen
    /\ \E n \in {ClaudeLimit + 1, ClaudeTail + 1} :
           inp' = [inp EXCEPT !.captured = @ \o [i \in 1..n |-> ListingLine(i)]]
    /\ UNCHANGED <<out, sessions, topic_sessions, global_active_session, disk, tmux,
                   now, ret, prev, security_config, processed_messages>>

\* send_to_claude_code processes the capture.
ClaudeScrape ==
    /\ out = None
    /\ out' = claude_scrape(inp.message, inp.captured)
    /\ UNCHANGED <<inp, sessions, topic_sessions, global_active_session, disk, tmux,
                   now, ret, prev, security_config, processed_messages>>

ClaudeNext == ClaudeShow \/ ClaudeListing \/ ClaudeScrape

ClaudeSpec == ClaudeInit /\ [][ClaudeNext]_vars

\* A line of the answer: not blank, not ending with "$", not starting with
\* the box border.
AnswerLine(line) ==
    line # <<>> /\ ~EndsWith(line, <<"$">>) /\ ~StartsWith(line, <<BoxBorder>>)

\* The reply that carries the lines expected, the placeholder when there
\* are none.
ClaudeReply(expected, message) ==
    IF expected # <<>>
    THEN [kind |-> "text", lines |-> expected]
    ELSE [kind |-> "sent to Claude Code", command |-> message]

\* C31 as stated: the reply of assistant mode is anchored on the first
\* captured line that contains the message, case ignored: it is the lines
\* after that line that are not blank, do not end with "$" and do not start
\* with the box border, in order; when no line contains the message it is
\* the last non-blank lines, at most 10, of the final 20 lines of the
\* capture, in order.
C31_AnchoredReply ==
    out # None =>
        LET lines == StrippedLines(inp.captured)
            anchors == {i \in 1..Len(lines) :
                            Contains(Lower(lines[i]), Lower(inp.message))}
            recent == SelectSeq(LastLines(lines, ClaudeTail), NonBlank)
        IN  IF anchors # {}
            THEN LET first == CHOOSE i \in anchors : \A j \in anchors : i <= j
                 IN  out = ClaudeReply(SelectSeq(SubSeq(lines, first + 1, Len(lines)),
                                                 AnswerLine),
                                       inp.message)
            ELSE out = ClaudeReply(LastLines(recent, ClaudeLimit), inp.message)

\* ------------------------------------------------------------------- C32
\* C32 as stated: a failure of the tmux adapter is reported to the caller.
\* When send-keys fails inside set_working_directory (the session's handle
\* is gone) the call returns failure and the record is as it was; and since
\* load_sessions returns nothing, a session whose dead handle could not be
\* recreated is not left registered as if it had been loaded.
C32_Step ==
    /\ (/\ ret'.op = "setwd"
        /\ ret'.id \in DOMAIN sessions
        /\ ret'.path \in ExistingPaths
        /\ ~Alive(tmux, ret'.id))
           => (~ret'.ok /\ sessions' = sessions)
    /\ ret'.op = "restart" =>
           \A id \in DOMAIN sessions' : sessions'[id].tmux_session \in DOMAIN tmux'

C32_FailuresSurfaced == [][C32_Step]_vars

\* ------------------------------------------------------------------- C33
\* get_current_session(topic) in the state before the step and after it.
Routed(topic) ==
    get_current_session(sessions, topic_sessions, global_active_session, topic)

RoutedAfter(topic) ==
    get_current_session(sessions', topic_sessions', global_active_session', topic)

\* C33 as stated: a restart keeps the routing of every topic: when every
\* session directory belongs to a registered session (nothing was killed,
\* no creation failed), get_current_session(t) after the registry was
\* loaded again returns what it returned before, also with two sessions
\* created for one topic and with a topic bound again by switch_session.
C33_Step ==
    (ret'.op = "restart" /\ DOMAIN disk = DOMAIN sessions)
        => \A topic \in Topics : RoutedAfter(topic) = Routed(topic)

C33_RestartKeepsRouting == [][C33_Step]_vars

\* ------------------------------------------------------------------- C34
\* C34 as stated: the global active session, when set, is a registered
\* session; and when a session was killed and the next create_session took
\* its id again, get_current_session for a topic that has no mapping does
\* not return the new session, which no switch_session selected.
C34_GlobalRegistered ==
    /\ global_active_session # NoId => global_active_session \in DOMAIN sessions
    /\ (/\ prev.op = "kill" /\ prev.ok
        /\ ret.op = "create" /\ ret.ok
        /\ ret.id = prev.id)
           => \A topic \in Topics \ DOMAIN topic_sessions :
                  get_current_session(sessions, topic_sessions,
                                      global_active_session, topic) # ret.id

\* ------------------------------------------------------------------- C35
\* create_session is called by the chat handler and by the HTTP front-end
\* (POST /api/sessions) on the same SessionManager, with no lock.  One call
\* is four steps: generate_session_id reads self.sessions; the directory and
\* session.json are written; tmux kill-session and new-session run; the
\* session is stored in self.sessions and the topic index.  inp holds where
\* each caller's call stands, out the id each caller's last call returned.
NotCreating == [pc |-> "idle", id |-> NoId, topic |-> NoTopic]

RaceInit ==
    /\ sessions = <<>>
    /\ topic_sessions = <<>>
    /\ global_active_session = NoId
    /\ disk = <<>>
    /\ tmux = <<>>
    /\ now = 0
    /\ ret = NoOp
    /\ prev = NoOp
    /\ security_config = <<>>
    /\ processed_messages = {}
    /\ inp = [c \in FlightCallers |-> NotCreating]
    /\ out = [c \in FlightCallers |-> NoId]

\* session_id = self.generate_session_id()
PickId ==
    \E caller \in FlightCallers, topic \in Topics :
        /\ now < MaxCalls
        /\ inp[caller].pc = "idle"
        /\ FreeNumbers(sessions) # {}
        /\ inp' = [inp EXCEPT ![caller] = [pc |-> "picked",
                                           id |-> generate_session_id(sessions),
                                           topic |-> topic]]
        /\ now' = now + 1
        /\ UNCHANGED <<sessions, topic_sessions, global_active_session, disk, tmux, ret,
                       prev, security_config, processed_messages, out>>

\* mkdir(exist_ok=True) twice and session.json written
WriteRecord ==
    \E caller \in FlightCallers :
        /\ inp[caller].pc = "picked"
        /\ disk' = WriteNewDir(disk, inp[caller].id,
                               new_session_data(inp[caller].id, Demo,
                                                inp[caller].topic, now))
        /\ inp' = [inp EXCEPT ![caller].pc = "written"]
        /\ UNCHANGED <<sessions, topic_sessions, global_active_session, tmux, now, ret,
                       prev, security_config, processed_messages, out>>

\* tmux kill-session -t name; tmux new-session -d -s name: a failure ends
\* the call with an exception.
NewTmuxSession ==
    \E caller \in FlightCallers, tmux_ok \in BOOLEAN :
        LET id == inp[caller].id
            killed == Del(tmux, tmux_name(id))
        IN  /\ inp[caller].pc = "written"
            /\ IF tmux_ok
               THEN /\ tmux' = Put(killed, tmux_name(id), new_handle(session_dir(id)))
                    /\ inp' = [inp EXCEPT ![caller].pc = "started"]
                    /\ UNCHANGED <<disk, out>>
               ELSE /\ tmux' = killed
                    /\ disk' = RollbackDir(disk, id)
                    /\ inp' = [inp EXCEPT ![caller] = NotCreating]
                    /\ out' = [out EXCEPT ![caller] = NoId]
            /\ UNCHANGED <<sessions, topic_sessions, global_active_session, now, ret,
                           prev, security_config, processed_messages>>

\* self.sessions[session_id] = session_data; the topic is mapped; the id is
\* returned.
StoreInMemory ==
    \E caller \in FlightCallers :
        LET id == inp[caller].id
        IN  /\ inp[caller].pc = "started"
            /\ sessions' = Put(sessions, id, json_load(disk[id].session_json))
            /\ topic_sessions' = Put(topic_sessions, inp[caller].topic, id)
            /\ out' = [out EXCEPT ![caller] = id]
            /\ inp' = [inp EXCEPT ![caller] = NotCreating]
            /\ UNCHANGED <<global_active_session, disk, tmux, now, ret, prev,
                           security_config, processed_messages>>

RaceNext == PickId \/ WriteRecord \/ NewTmuxSession \/ StoreInMemory

RaceSpec == RaceInit /\ [][RaceNext]_vars

\* C35 as stated: two create_session calls that run at the same time, one
\* of the chat handler and one of the HTTP front-end, work on different ids
\* (so on different directories and tmux names), and the ids the two callers
\* were returned differ.
C35_DistinctIds ==
    \A c, d \in FlightCallers :
        c # d =>
            /\ (inp[c].pc # "idle" /\ inp[d].pc # "idle") => inp[c].id # inp[d].id
            /\ (out[c] # NoId /\ out[d] # NoId) => out[c] # out[d]

\* ------------------------------------------------------------------- C36
\* C36 as stated: when a line of the capture equals the command, no line
\* that comes before that line is in the reply of shell mode; when nothing
\* follows the echoed command the reply is the no-output placeholder.
C36_NoEarlierContent ==
    out # None =>
        LET lines == StrippedLines(inp.captured)
            anchors == {i \in 1..Len(lines) : lines[i] = inp.command}
        IN  anchors # {} =>
                LET first == CHOOSE i \in anchors : \A j \in anchors : i <= j
                    after == SelectSeq(SubSeq(lines, first + 1, Len(lines)), NonBlank)
                IN  /\ out.kind = "text" =>
                           \A k \in DOMAIN out.lines :
                               out.lines[k] = TruncationMarker
                                   \/ \E j \in (first + 1)..Len(lines) :
                                          lines[j] = out.lines[k]
                    /\ after = <<>> => out.kind # "text"

\* ------------------------------------------------------------------- C37
\* The session directory keeps history.log next to session.json and
\* context/; a directory without the file has no history.
History(d, id) == IF "history" \in DOMAIN d[id] THEN d[id].history ELSE <<>>

\* save_command_history appends one entry to history.log of directory id.
save_command_history(id, command) ==
    /\ disk' = Put(disk, id, Put(disk[id], "history",
                                 Append(History(disk, id), command)))
    /\ out' = None
    /\ ret' = Op("history", id, NoTopic, TRUE, "")
    /\ UNCHANGED <<sessions, topic_sessions, global_active_session, tmux>>

SaveCommandHistory ==
    /\ now < MaxOps
    /\ \E id \in DOMAIN disk : save_command_history(id, EchoHi)
    /\ now' = now + 1
    /\ prev' = ret
    /\ UNCHANGED <<security_config, processed_messages, inp>>

StorageKill == KillSession /\ UNCHANGED aux

StorageCreate == CreateSession /\ UNCHANGED aux

\* Sessions 001 and 002 are registered; files are uploaded, commands are
\* logged, sessions are killed and created.
StorageNext ==
    \/ UploadFile
    \/ SaveCommandHistory
    \/ StorageKill
    \/ StorageCreate

StorageSpec == ContextInit /\ [][StorageNext]_vars

\* C37 as stated: right after create_session returned an id, the context
\* directory of that session holds no file and its command history is
\* empty, also when a killed session had the id before.
C37_FreshStorage ==
    (ret.op = "create" /\ ret.ok)
        => /\ disk[ret.id].context = {}
           /\ History(disk, ret.id) = <<>>

\* ------------------------------------------------------------------- C38
\* C38: kill_session(A) removes no binding but A's own: every topic mapped
\* to another session stays mapped to it, A's creation topic included when
\* it maps to a different session B by now; every other session keeps its
\* record and its tmux handle.  switch_session with an id that is not
\* registered returns False and leaves the topic index and the global
\* active session as they were.
C38_Step ==
    /\ (ret'.op = "kill" /\ ret'.ok) =>
           /\ \A topic \in DOMAIN topic_sessions :
                  topic_sessions[topic] # ret'.id =>
                      /\ topic \in DOMAIN topic_sessions'
                      /\ topic_sessions'[topic] = topic_sessions[topic]
           /\ \A B \in DOMAIN sessions \ {ret'.id} :
                  /\ B \in DOMAIN sessions'
                  /\ sessions'[B] = sessions[B]
                  /\ (sessions[B].tmux_session \in DOMAIN tmux)
                         = (sessions[B].tmux_session \in DOMAIN tmux')
                  /\ sessions[B].tmux_session \in DOMAIN tmux =>
                         tmux'[sessions[B].tmux_session] = tmux[sessions[B].tmux_session]
    /\ (ret'.op = "switch" /\ ret'.id \notin DOMAIN sessions) =>
           /\ ~ret'.ok
           /\ topic_sessions' = topic_sessions
           /\ global_active_session' = global_active_session
           /\ sessions' = sessions

C38_KillFrame == [][C38_Step]_vars

\* Session A was killed while its creation topic was mapped to another
\* registered session B, and the mapping is there.
C38_Witness ==
    /\ ret.op = "kill" /\ ret.ok
    /\ ret.id \in DOMAIN disk
    /\ LET topic == json_load(disk[ret.id].session_json).topic
       IN  /\ Truthy(topic)
           /\ TopicGet(topic_sessions, topic) # NoId
           /\ TopicGet(topic_sessions, topic) # ret.id
           /\ TopicGet(topic_sessions, topic) \in DOMAIN sessions

====
